---- MODULE Spec2Model ----
(***************************************************************************)
(* mini-service: the group-registration / API-exposure pipeline.          *)
(*                                                                         *)
(* start(options) validates the options, extractApis initialises every    *)
(* group in declaration order and builds one descriptor per exposed       *)
(* function, expose registers the routes on a Hapi server and starts it.  *)
(***************************************************************************)
EXTENDS Integers, Sequences, FiniteSets, TLC

\* Largest number of groups of a service definition.
MaxGroups == 3

----------------------------------------------------------------------------
(* JavaScript values a group's init may resolve to.                        *)

NonObjectKinds == {"null", "undefined", "string", "boolean", "array"}

\* Tokens of a function's source text, as Function.prototype.toString gives it.
\* SEP is the two characters ", ".
SEP == ", "

\* The functions the groups of the model expose, after the fixtures of the
\* repository. length is the function's arity (Function.length: the
\* parameters before the first one with a default value or the rest one).
ApiCatalogue ==
  { [id |-> "ping", isFunction |-> TRUE,
     decl |-> <<"ping", "(", ")", "{}">>, length |-> 0,
     validate |-> "absent", responseSchema |-> "absent",
     validateResponse |-> "absent",
     hasBufferInput |-> "absent", hasStreamInput |-> "absent"],
    [id |-> "add", isFunction |-> TRUE,
     decl |-> <<"(", "a", SEP, "b", ")", "=>", "a + b">>, length |-> 2,
     validate |-> "schemas", responseSchema |-> "absent",
     validateResponse |-> "absent",
     hasBufferInput |-> "absent", hasStreamInput |-> "absent"],
    [id |-> "sum", isFunction |-> TRUE,
     decl |-> <<"sum", "(", "a", ")", "{}">>, length |-> 1,
     validate |-> "schemas", responseSchema |-> "absent",
     validateResponse |-> "absent",
     hasBufferInput |-> "absent", hasStreamInput |-> "absent"],
    [id |-> "greeting", isFunction |-> TRUE,
     decl |-> <<"greeting", "(", "name", "=", "'you'", ")", "{}">>, length |-> 0,
     validate |-> "absent", responseSchema |-> "schema",
     validateResponse |-> "true",
     hasBufferInput |-> "absent", hasStreamInput |-> "absent"],
    [id |-> "destructured", isFunction |-> TRUE,
     decl |-> <<"(", "{c: {d}}", ")", "=>", "d">>, length |-> 1,
     validate |-> "absent", responseSchema |-> "absent",
     validateResponse |-> "absent",
     hasBufferInput |-> "absent", hasStreamInput |-> "absent"],
    [id |-> "invalidValidator", isFunction |-> TRUE,
     decl |-> <<"invalidValidator", "(", "message", ")", "{}">>, length |-> 1,
     validate |-> "number", responseSchema |-> "absent",
     validateResponse |-> "absent",
     hasBufferInput |-> "absent", hasStreamInput |-> "absent"],
    [id |-> "withRest", isFunction |-> TRUE,
     decl |-> <<"withRest", "(", "a", SEP, "...", "other", ")", "{}">>, length |-> 1,
     validate |-> "absent", responseSchema |-> "absent",
     validateResponse |-> "absent",
     hasBufferInput |-> "absent", hasStreamInput |-> "absent"],
    [id |-> "subtract", isFunction |-> TRUE,
     decl |-> <<"(", "a", SEP, "b", ")", "=>", "a - b">>, length |-> 2,
     validate |-> "absent", responseSchema |-> "absent",
     validateResponse |-> "absent",
     hasBufferInput |-> "absent", hasStreamInput |-> "absent"],
    [id |-> "failing", isFunction |-> TRUE,
     decl |-> <<"failing", "(", ")", "{}">>, length |-> 0,
     validate |-> "absent", responseSchema |-> "absent",
     validateResponse |-> "absent",
     hasBufferInput |-> "absent", hasStreamInput |-> "absent"],
    [id |-> "errored", isFunction |-> TRUE,
     decl |-> <<"errored", "(", ")", "{}">>, length |-> 0,
     validate |-> "absent", responseSchema |-> "absent",
     validateResponse |-> "absent",
     hasBufferInput |-> "absent", hasStreamInput |-> "absent"],
    [id |-> "boomError", isFunction |-> TRUE,
     decl |-> <<"boomError", "(", ")", "{}">>, length |-> 0,
     validate |-> "absent", responseSchema |-> "absent",
     validateResponse |-> "absent",
     hasBufferInput |-> "absent", hasStreamInput |-> "absent"],
    [id |-> "rejecting", isFunction |-> TRUE,
     decl |-> <<"rejecting", "(", ")", "{}">>, length |-> 0,
     validate |-> "absent", responseSchema |-> "absent",
     validateResponse |-> "absent",
     hasBufferInput |-> "absent", hasStreamInput |-> "absent"],
    [id |-> "bufferHandling", isFunction |-> TRUE,
     decl |-> <<"bufferHandling", "(", "buffer", ")", "{}">>, length |-> 1,
     validate |-> "absent", responseSchema |-> "absent",
     validateResponse |-> "absent",
     hasBufferInput |-> "true", hasStreamInput |-> "absent"],
    [id |-> "streamHandling", isFunction |-> TRUE,
     decl |-> <<"streamHandling", "(", "stream", ")", "{}">>, length |-> 1,
     validate |-> "absent", responseSchema |-> "absent",
     validateResponse |-> "absent",
     hasBufferInput |-> "absent", hasStreamInput |-> "true"],
    [id |-> "validatedPing", isFunction |-> TRUE,
     decl |-> <<"validatedPing", "(", ")", "{}">>, length |-> 0,
     validate |-> "schemas", responseSchema |-> "absent",
     validateResponse |-> "absent",
     hasBufferInput |-> "absent", hasStreamInput |-> "absent"],
    [id |-> "plumless", isFunction |-> TRUE,
     decl |-> <<"plumless", "(", ")", "{}">>, length |-> 0,
     validate |-> "absent", responseSchema |-> "absent",
     validateResponse |-> "absent",
     hasBufferInput |-> "absent", hasStreamInput |-> "absent"],
    [id |-> "buckeroo", isFunction |-> TRUE,
     decl |-> <<"buckeroo", "(", ")", "{}">>, length |-> 0,
     validate |-> "absent", responseSchema |-> "absent",
     validateResponse |-> "absent",
     hasBufferInput |-> "absent", hasStreamInput |-> "absent"],
    [id |-> "looseGreeting", isFunction |-> TRUE,
     decl |-> <<"looseGreeting", "(", "name", ")", "{}">>, length |-> 1,
     validate |-> "absent", responseSchema |-> "schema",
     validateResponse |-> "false",
     hasBufferInput |-> "absent", hasStreamInput |-> "absent"],
    [id |-> "documentedGreeting", isFunction |-> TRUE,
     decl |-> <<"documentedGreeting", "(", "name", ")", "{}">>, length |-> 1,
     validate |-> "absent", responseSchema |-> "schema",
     validateResponse |-> "absent",
     hasBufferInput |-> "absent", hasStreamInput |-> "absent"],
    [id |-> "bufferChecked", isFunction |-> TRUE,
     decl |-> <<"bufferChecked", "(", "buffer", ")", "{}">>, length |-> 1,
     validate |-> "absent", responseSchema |-> "schema",
     validateResponse |-> "true",
     hasBufferInput |-> "true", hasStreamInput |-> "absent"],
    [id |-> "bufferWithExtra", isFunction |-> TRUE,
     decl |-> <<"bufferWithExtra", "(", "buffer", SEP, "extra", ")", "{}">>, length |-> 2,
     validate |-> "schemas", responseSchema |-> "absent",
     validateResponse |-> "absent",
     hasBufferInput |-> "true", hasStreamInput |-> "absent"],
    [id |-> "bufferless", isFunction |-> TRUE,
     decl |-> <<"bufferless", "(", ")", "{}">>, length |-> 0,
     validate |-> "absent", responseSchema |-> "absent",
     validateResponse |-> "absent",
     hasBufferInput |-> "true", hasStreamInput |-> "absent"],
    [id |-> "withTightRest", isFunction |-> TRUE,
     decl |-> <<"(", "a", ",", "...", "other", ")", "=>", "other">>, length |-> 1,
     validate |-> "absent", responseSchema |-> "absent",
     validateResponse |-> "absent",
     hasBufferInput |-> "absent", hasStreamInput |-> "absent"],
    [id |-> "bothInputs", isFunction |-> TRUE,
     decl |-> <<"bothInputs", "(", "buffer", ")", "{}">>, length |-> 1,
     validate |-> "absent", responseSchema |-> "absent",
     validateResponse |-> "absent",
     hasBufferInput |-> "true", hasStreamInput |-> "true"],
    [id |-> "validatedWithoutSchema", isFunction |-> TRUE,
     decl |-> <<"validatedWithoutSchema", "(", ")", "{}">>, length |-> 0,
     validate |-> "absent", responseSchema |-> "absent",
     validateResponse |-> "true",
     hasBufferInput |-> "absent", hasStreamInput |-> "absent"],
    \* the element of an array or the character of a string: not a function
    [id |-> "0", isFunction |-> FALSE,
     decl |-> <<"[object Object]">>, length |-> 0,
     validate |-> "absent", responseSchema |-> "absent",
     validateResponse |-> "absent",
     hasBufferInput |-> "absent", hasStreamInput |-> "absent"] }

Api(id) == CHOOSE a \in ApiCatalogue : a.id = id

\* The objects a group's init resolves to: the keys of the object in
\* iteration order.
ApiMaps ==
  { <<>>,
    <<"ping", "add">>,
    <<"greeting", "destructured">>,
    <<"add", "invalidValidator", "ping">>,
    <<"ping", "withRest">>,
    <<"withRest", "invalidValidator">>,
    <<"bothInputs", "withTightRest">>,
    <<"bothInputs", "validatedWithoutSchema">> }

\* Every value an init may resolve to: its kind and its own enumerable keys.
InitValues ==
  { [kind |-> "object", keys |-> m] : m \in ApiMaps }
    \cup { [kind |-> k, keys |-> <<>>] : k \in {"null", "undefined", "boolean"} }
    \cup { [kind |-> k, keys |-> <<"0">>] : k \in {"string", "array"} }

NoValue == [kind |-> "none", keys |-> <<>>]

JsTruthy(v) == v.kind \notin {"null", "undefined", "none"}
JsTypeof(v) == IF v.kind \in {"object", "array", "null"} THEN "object" ELSE v.kind
JsIsArray(v) == v.kind = "array"

----------------------------------------------------------------------------
(* Option objects are sets of [key, val] with distinct keys; val records   *)
(* where the value comes from (0: the service, g: the options of group    *)
(* g).                                                                     *)

ServiceLogger == [key |-> "logger", val |-> 0]

GroupOptChoices == { {}, {"level"}, {"logger", "level"} }

Keys(obj) == { p.key : p \in obj }

\* Object.assign with the keys of the target winning over the source's
ObjectAssign_TargetWins(target, source) ==
  target \cup { p \in source : p.key \notin Keys(target) }

\* Object.assign(target, source)
ObjectAssign(target, source) ==
  { p \in target : p.key \notin Keys(source) } \cup source

----------------------------------------------------------------------------
(* Errors: which failure, and the group and API id its message names.      *)

NoError == [kind |-> "none", group |-> 0, id |-> ""]

InvalidApiError(group, id) == [kind |-> "api", group |-> group, id |-> id]

SignatureError(group, id) == [kind |-> "signature", group |-> group, id |-> id]

----------------------------------------------------------------------------
(* Pure functions.                                                         *)

\* isApi without its test on arrays
isApi_NoArrayCheck(apis) == JsTruthy(apis) /\ JsTypeof(apis) = "object"

\* apis => !!apis && typeof apis === 'object' && !Array.isArray(apis)
isApi(apis) == JsTruthy(apis) /\ JsTypeof(apis) = "object" /\ ~JsIsArray(apis)

\* Index of the first element of s at or after position from that is in S; 0 if none.
FirstIndex(s, from, S) ==
  IF \E i \in from..Len(s) : s[i] \in S
  THEN CHOOSE i \in from..Len(s) : s[i] \in S /\ \A j \in from..(i - 1) : s[j] \notin S
  ELSE 0

\* String.prototype.split(', ') on a text given as tokens.
RECURSIVE Split(_)
Split(text) ==
  LET i == FirstIndex(text, 1, {SEP}) IN
  IF i = 0 THEN <<text>>
  ELSE <<SubSeq(text, 1, i - 1)>> \o Split(SubSeq(text, i + 1, Len(text)))

\* the parameter kept with its default value
RemoveDefault_Keep(p) == p

\* p.replace(/\s*=.+/, ''): drops everything from the first "=" that has
\* something after it.
RemoveDefault(p) ==
  LET e == FirstIndex(p, 1, {"=", "=>"}) IN
  IF e = 0 \/ (p[e] = "=" /\ e = Len(p)) THEN p ELSE SubSeq(p, 1, e - 1)

SelectNonEmpty(pieces) == SelectSeq(pieces, LAMBDA p : p # <<>>)

\* getParamNames without its guard against rest parameters
getParamNames_RestAllowed(decl) ==
  LET arrow == FirstIndex(decl, 1, {"=>"})
      open  == FirstIndex(decl, 1, {"("})
  IN
  IF arrow >= 2 /\ (open = 0 \/ open > arrow)
  THEN IF arrow = 2 THEN [status |-> "ok", params |-> << <<decl[1]>> >>]
       ELSE [status |-> "typeerror", params |-> <<>>]
  ELSE IF open > 0
  THEN LET close == FirstIndex(decl, open + 1, {")"}) IN
       IF close = 0 THEN [status |-> "typeerror", params |-> <<>>]
       ELSE LET pieces == SelectNonEmpty(Split(SubSeq(decl, open + 1, close - 1)))
            IN [status |-> "ok",
                params |-> [i \in 1..Len(pieces) |-> RemoveDefault(pieces[i])]]
  ELSE [status |-> "unsupported", params |-> <<>>]

\* getParamNames(fn) on the source text of fn: status is "ok", or the way it
\* throws ("rest": unsupported function, rest parameter; "unsupported":
\* unsupported function; "typeerror": a regular expression did not match).
getParamNames(decl) ==
  LET arrow == FirstIndex(decl, 1, {"=>"})
      open  == FirstIndex(decl, 1, {"("})
  IN
  IF arrow >= 2 /\ (open = 0 \/ open > arrow)
  THEN \* "name =>"
       IF arrow = 2 THEN [status |-> "ok", params |-> << <<decl[1]>> >>]
       ELSE [status |-> "typeerror", params |-> <<>>]
  ELSE IF open > 0
  THEN LET close == FirstIndex(decl, open + 1, {")"}) IN
       IF close = 0 THEN [status |-> "typeerror", params |-> <<>>]
       ELSE LET pieces == SelectNonEmpty(Split(SubSeq(decl, open + 1, close - 1)))
                params == [i \in 1..Len(pieces) |-> RemoveDefault(pieces[i])]
            IN IF \E i \in 1..Len(params) : params[i] # <<>> /\ params[i][1] = "..."
               THEN [status |-> "rest", params |-> <<>>]
               ELSE [status |-> "ok", params |-> params]
  ELSE [status |-> "unsupported", params |-> <<>>]

\* apiSchema without its rule on validate
apiSchema_NoValidateRule(api) ==
  /\ api.isFunction
  /\ api.responseSchema \in {"absent", "schema"}
  /\ api.validateResponse \in {"absent", "true", "false"}
  /\ api.hasBufferInput \in {"absent", "true", "false"}
  /\ api.hasStreamInput \in {"absent", "true", "false"}
  /\ (api.validateResponse # "absent" => api.responseSchema # "absent")

\* apiSchema without .with('validateResponse', 'responseSchema')
apiSchema_NoWithRule(api) ==
  /\ api.isFunction
  /\ api.validate \in {"absent", "schemas"}
  /\ api.responseSchema \in {"absent", "schema"}
  /\ api.validateResponse \in {"absent", "true", "false"}
  /\ api.hasBufferInput \in {"absent", "true", "false"}
  /\ api.hasStreamInput \in {"absent", "true", "false"}

\* joi.assert(api, apiSchema): a function whose validate is an array of
\* schemas, whose responseSchema is a schema, whose flags are booleans, and
\* which has a responseSchema when it has validateResponse.
apiSchema(api) ==
  /\ api.isFunction
  /\ api.validate \in {"absent", "schemas"}
  /\ api.responseSchema \in {"absent", "schema"}
  /\ api.validateResponse \in {"absent", "true", "false"}
  /\ api.hasBufferInput \in {"absent", "true", "false"}
  /\ api.hasStreamInput \in {"absent", "true", "false"}
  /\ (api.validateResponse # "absent" => api.responseSchema # "absent")

\* extractValidate(id, apis, groupOpts[group], key): the schema attached to
\* the function under key, if any.
extractValidate(api, key) ==
  IF key = "validate" THEN api.validate ELSE api.responseSchema

PathOf(group, id) == [base |-> "/api", group |-> group, id |-> id]

\* The descriptor pushed for one function of a group.
Descriptor(group, api) ==
  [group |-> group,
   id |-> api.id,
   params |-> getParamNames(api.decl).params,
   path |-> PathOf(group, api.id),
   hasBufferInput |-> (api.hasBufferInput = "true"),
   hasStreamInput |-> (api.hasStreamInput = "true"),
   payloadSchema |-> extractValidate(api, "validate"),
   responseSchema |-> extractValidate(api, "responseSchema"),
   validateResponse |-> (extractValidate(api, "responseSchema") # "absent"
                           /\ api.validateResponse = "true")]

\* The for-in loop over the keys of what a group's init resolved to: the
\* descriptors pushed, and the error that stopped the loop if any.
RECURSIVE ExtractDescriptors(_, _, _)
ExtractDescriptors(group, ids, acc) ==
  IF ids = <<>> THEN [error |-> NoError, descriptors |-> acc]
  ELSE LET api == Api(Head(ids)) IN
       IF ~apiSchema(api)
       THEN [error |-> InvalidApiError(group, api.id), descriptors |-> acc]
       ELSE IF getParamNames(api.decl).status # "ok"
       THEN [error |-> SignatureError(group, api.id), descriptors |-> acc]
       ELSE ExtractDescriptors(group, Tail(ids), Append(acc, Descriptor(group, api)))

\* the method chosen from the arity of the function: api.length ? 'POST' : 'GET'
RouteMethod_ByArity(descriptor) ==
  IF Api(descriptor.id).length # 0 THEN "POST" ELSE "GET"

\* method: params.length ? 'POST' : 'GET'
RouteMethod(descriptor) == IF Len(descriptor.params) # 0 THEN "POST" ELSE "GET"

RouteOf(descriptor) == [method |-> RouteMethod(descriptor), path |-> descriptor.path]

ExposedRoute == [method |-> "GET", path |-> PathOf(0, "exposed")]

\* purge keeping the schemas of the descriptor
purge_KeepSchemas(d) ==
  [group |-> d.group, id |-> d.id, params |-> d.params, path |-> d.path,
   hasBufferInput |-> d.hasBufferInput, hasStreamInput |-> d.hasStreamInput,
   payloadSchema |-> d.payloadSchema, responseSchema |-> d.responseSchema]

\* purge(descriptor): the exposed API of a descriptor
purge(d) ==
  [group |-> d.group, id |-> d.id, params |-> d.params, path |-> d.path,
   hasBufferInput |-> d.hasBufferInput, hasStreamInput |-> d.hasStreamInput]

\* descriptors.map(purge)
Exposed(ds) == [i \in 1..Len(ds) |-> purge(ds[i])]

----------------------------------------------------------------------------
(* JavaScript objects: the properties in iteration order, the integer     *)
(* keys first in ascending order, then the other keys in insertion order. *)
(* Keys and values are strings; Undefined is the value undefined.          *)

\* Largest number of arguments of a call.
MaxArgs == 3

Undefined == "undefined"

\* String(i) for the indices an object of the model may have as keys
IndexKeys == <<"0", "1", "2", "3", "4", "5", "6", "7">>

IsIndex(k) == \E i \in 1..Len(IndexKeys) : IndexKeys[i] = k

IndexOf(k) == (CHOOSE i \in 1..Len(IndexKeys) : IndexKeys[i] = k) - 1

ToKey(i) == IndexKeys[i + 1]

HasKey(obj, k) == \E i \in 1..Len(obj) : obj[i].key = k

\* obj[k]
Get(obj, k) ==
  IF HasKey(obj, k) THEN obj[CHOOSE i \in 1..Len(obj) : obj[i].key = k].val
  ELSE Undefined

\* obj[k] = v
Put(obj, k, v) ==
  IF HasKey(obj, k)
  THEN [i \in 1..Len(obj) |-> IF obj[i].key = k THEN [key |-> k, val |-> v] ELSE obj[i]]
  ELSE IF IsIndex(k)
  THEN LET Before(p) == IsIndex(p.key) /\ IndexOf(p.key) < IndexOf(k)
           NotBefore(p) == ~Before(p)
       IN SelectSeq(obj, Before) \o <<[key |-> k, val |-> v]>> \o SelectSeq(obj, NotBefore)
  ELSE Append(obj, [key |-> k, val |-> v])

\* Object.keys(obj)
ObjectKeys(obj) == [i \in 1..Len(obj) |-> obj[i].key]

\* array.includes(x)
Includes(array, x) == \E i \in 1..Len(array) : array[i] = x

\* array[i - 1]: undefined past the end of the array
At(array, i) == IF i <= Len(array) THEN array[i] ELSE Undefined

\* JSON.parse of the text of an object: the properties are defined in the
\* order of the text
RECURSIVE JSONparse(_, _)
JSONparse(text, obj) ==
  IF text = <<>> THEN obj
  ELSE JSONparse(Tail(text), Put(obj, Head(text).key, Head(text).val))

\* the first loop of arrayToObj: obj[prop] = array[i]
RECURSIVE AssignProperties(_, _, _, _)
AssignProperties(obj, array, properties, i) ==
  IF i > Len(properties) THEN obj
  ELSE AssignProperties(Put(obj, properties[i], At(array, i)), array, properties, i + 1)

\* the second loop of arrayToObj: obj[i] = array[i]
RECURSIVE AssignUnexpected(_, _, _)
AssignUnexpected(obj, array, i) ==
  IF i > Len(array) THEN obj
  ELSE AssignUnexpected(Put(obj, ToKey(i - 1), array[i]), array, i + 1)

\* arrayToObj keeping only the expected properties
arrayToObj_ExpectedOnly(array, properties) ==
  AssignProperties(<<>>, array, properties, 1)

\* arrayToObj(array, properties)
arrayToObj(array, properties) ==
  AssignUnexpected(AssignProperties(<<>>, array, properties, 1), array,
                   Len(properties) + 1)

\* the arguments of the handler, with the other values before the expected ones
HandlerArgs_OthersFirst(payload, params) ==
  LET Other(p) == ~Includes(params, p.key)
      others == SelectSeq(payload, Other)
  IN [i \in 1..Len(others) |-> others[i].val]
       \o [i \in 1..Len(params) |-> Get(payload, params[i])]

\* args.push(...params.map(prop => payload[prop]))
\* args.push(...Object.keys(payload).filter(p => !params.includes(p)).map(prop => payload[prop]))
HandlerArgs(payload, params) ==
  LET Other(p) == ~Includes(params, p.key)
      others == SelectSeq(payload, Other)
  IN [i \in 1..Len(params) |-> Get(payload, params[i])]
       \o [i \in 1..Len(others) |-> others[i].val]

----------------------------------------------------------------------------
(* Validation. A schema of one parameter is the type it requires; the     *)
(* schema of a payload is joi.object(arrayToObj(schemas, params))          *)
(* .unknown(false).                                                        *)

Numbers == {"1", "2", "3", "4", "5", "10"}

TypeOf(v) ==
  IF v = Undefined THEN "undefined"
  ELSE IF v = "null" THEN "null"
  ELSE IF v \in Numbers THEN "number"
  ELSE "string"

\* Errors of a validation: kind is "schema" for an error of joi (key is the
\* key at fault, detail the rule broken) and "count" for the error of
\* validateParams (key is the API id, detail the expected number).
NoValidationError == [kind |-> "none", key |-> "", detail |-> ""]

\* the error of joi for one key of the schema: the value is required, and of
\* the type of the schema
KeyError(values, entry) ==
  IF Get(values, entry.key) = Undefined
  THEN [kind |-> "schema", key |-> entry.key, detail |-> "is required"]
  ELSE IF TypeOf(Get(values, entry.key)) # entry.val
  THEN [kind |-> "schema", key |-> entry.key, detail |-> "must be of its type"]
  ELSE NoValidationError

\* the validation of a schema that allows the keys it does not know
SchemaValidate_AllowUnknown(values, schema) ==
  LET Bad(entry) == KeyError(values, entry) # NoValidationError
      bad == SelectSeq(schema, Bad)
  IN IF bad # <<>> THEN KeyError(values, bad[1]) ELSE NoValidationError

\* schema.validate(values).error: the error of the first key of the schema
\* that has one, otherwise of the first key the schema does not know
SchemaValidate(values, schema) ==
  LET Bad(entry) == KeyError(values, entry) # NoValidationError
      bad == SelectSeq(schema, Bad)
      Unknown(p) == ~HasKey(schema, p.key)
      unknown == SelectSeq(values, Unknown)
  IN IF bad # <<>> THEN KeyError(values, bad[1])
     ELSE IF unknown # <<>>
     THEN [kind |-> "schema", key |-> unknown[1].key, detail |-> "is not allowed"]
     ELSE NoValidationError

\* the error of joi.object() for a payload that is null
NullPayloadError == [kind |-> "schema", key |-> "value", detail |-> "must be an object"]

\* new Error(`API ${id} must contain at most ${expected} parameters`)
TooManyError(id, expected) ==
  [kind |-> "count", key |-> id, detail |-> ToKey(expected)]

\* validateParams without its guard on the number of values
validateParams_NoGuard(values, schema, id, expected) ==
  [error |-> SchemaValidate(values, schema), consulted |-> TRUE]

\* validateParams(values, schema, id, expected): the error returned, and
\* whether schema.validate was called
validateParams(values, schema, id, expected) ==
  IF Len(ObjectKeys(values)) > expected
  THEN [error |-> TooManyError(id, expected), consulted |-> FALSE]
  ELSE [error |-> SchemaValidate(values, schema), consulted |-> TRUE]

----------------------------------------------------------------------------
(* The checksum: crc32(JSON.stringify(exposed)). Texts are sequences of    *)
(* bytes; a CRC-32 is its four bytes, the most significant first.          *)

\* The bytes (UTF-8) of the strings the exposed list is made of.
Text(s) ==
  CASE s = "ping" -> <<112, 105, 110, 103>>
    [] s = "sum" -> <<115, 117, 109>>
    [] s = "add" -> <<97, 100, 100>>
    [] s = "greeting" -> <<103, 114, 101, 101, 116, 105, 110, 103>>
    [] s = "destructured" -> <<100, 101, 115, 116, 114, 117, 99, 116, 117, 114, 101, 100>>
    [] s = "invalidValidator" -> <<105, 110, 118, 97, 108, 105, 100, 86, 97, 108, 105, 100, 97, 116, 111, 114>>
    [] s = "withRest" -> <<119, 105, 116, 104, 82, 101, 115, 116>>
    [] s = "0" -> <<48>>
    [] s = "withTightRest" -> <<119, 105, 116, 104, 84, 105, 103, 104, 116, 82, 101, 115, 116>>
    [] s = "bothInputs" -> <<98, 111, 116, 104, 73, 110, 112, 117, 116, 115>>
    [] s = "validatedWithoutSchema" -> <<118, 97, 108, 105, 100, 97, 116, 101, 100, 87, 105, 116, 104, 111, 117, 116, 83, 99, 104, 101, 109, 97>>
    [] s = "..." -> <<46, 46, 46>>
    [] s = "looseGreeting" -> <<108, 111, 111, 115, 101, 71, 114, 101, 101, 116, 105, 110, 103>>
    [] s = "documentedGreeting" -> <<100, 111, 99, 117, 109, 101, 110, 116, 101, 100, 71, 114, 101, 101, 116, 105, 110, 103>>
    [] s = "bufferChecked" -> <<98, 117, 102, 102, 101, 114, 67, 104, 101, 99, 107, 101, 100>>
    [] s = "bufferWithExtra" -> <<98, 117, 102, 102, 101, 114, 87, 105, 116, 104, 69, 120, 116, 114, 97>>
    [] s = "bufferless" -> <<98, 117, 102, 102, 101, 114, 108, 101, 115, 115>>
    [] s = "extra" -> <<101, 120, 116, 114, 97>>
    [] s = "subtract" -> <<115, 117, 98, 116, 114, 97, 99, 116>>
    [] s = "failing" -> <<102, 97, 105, 108, 105, 110, 103>>
    [] s = "errored" -> <<101, 114, 114, 111, 114, 101, 100>>
    [] s = "boomError" -> <<98, 111, 111, 109, 69, 114, 114, 111, 114>>
    [] s = "rejecting" -> <<114, 101, 106, 101, 99, 116, 105, 110, 103>>
    [] s = "bufferHandling" -> <<98, 117, 102, 102, 101, 114, 72, 97, 110, 100, 108, 105, 110, 103>>
    [] s = "streamHandling" -> <<115, 116, 114, 101, 97, 109, 72, 97, 110, 100, 108, 105, 110, 103>>
    [] s = "validatedPing" -> <<118, 97, 108, 105, 100, 97, 116, 101, 100, 80, 105, 110, 103>>
    [] s = "plumless" -> <<112, 108, 117, 109, 108, 101, 115, 115>>
    [] s = "buckeroo" -> <<98, 117, 99, 107, 101, 114, 111, 111>>
    [] s = "a" -> <<97>>
    [] s = "b" -> <<98>>
    [] s = "name" -> <<110, 97, 109, 101>>
    [] s = "{c: {d}}" -> <<123, 99, 58, 32, 123, 100, 125, 125>>
    [] s = "message" -> <<109, 101, 115, 115, 97, 103, 101>>
    [] s = "buffer" -> <<98, 117, 102, 102, 101, 114>>
    [] s = "stream" -> <<115, 116, 114, 101, 97, 109>>
    [] s = "other" -> <<111, 116, 104, 101, 114>>
    [] s = "/api" -> <<47, 97, 112, 105>>
    [] s = "{\"group\":\"" -> <<123, 34, 103, 114, 111, 117, 112, 34, 58, 34>>
    [] s = "\",\"id\":\"" -> <<34, 44, 34, 105, 100, 34, 58, 34>>
    [] s = "\",\"params\":[" -> <<34, 44, 34, 112, 97, 114, 97, 109, 115, 34, 58, 91>>
    [] s = "],\"path\":\"" -> <<93, 44, 34, 112, 97, 116, 104, 34, 58, 34>>
    [] s = "\",\"hasBufferInput\":" -> <<34, 44, 34, 104, 97, 115, 66, 117, 102, 102, 101, 114, 73, 110, 112, 117, 116, 34, 58>>
    [] s = ",\"hasStreamInput\":" -> <<44, 34, 104, 97, 115, 83, 116, 114, 101, 97, 109, 73, 110, 112, 117, 116, 34, 58>>
    [] s = "}" -> <<125>>
    [] s = "true" -> <<116, 114, 117, 101>>
    [] s = "false" -> <<102, 97, 108, 115, 101>>
    [] s = "\"" -> <<34>>
    [] s = "," -> <<44>>
    [] s = "[" -> <<91>>
    [] s = "]" -> <<93>>
    [] s = "/" -> <<47>>
    [] s = "g" -> <<103>>

\* the name of the group declared at position g
GroupText(g) == Text("g") \o <<48 + g>>

RECURSIVE Concat(_)
Concat(texts) == IF texts = <<>> THEN <<>> ELSE Head(texts) \o Concat(Tail(texts))

\* array.join(',') of texts
RECURSIVE Join(_)
Join(texts) ==
  IF texts = <<>> THEN <<>>
  ELSE IF Len(texts) = 1 THEN texts[1]
  ELSE texts[1] \o Text(",") \o Join(Tail(texts))

\* JSON.stringify of a string without any character to escape
JSONstring(text) == Text("\"") \o text \o Text("\"")

JSONboolean(b) == IF b THEN Text("true") ELSE Text("false")

\* the text of `${basePath}/${group}/${id}`
PathText(path) ==
  Text(path.base) \o Text("/") \o GroupText(path.group) \o Text("/") \o Text(path.id)

\* JSON.stringify of one exposed API: its properties in the order purge
\* defines them
JSONstringifyApi(e) ==
  Concat(<< Text("{\"group\":\""), GroupText(e.group),
            Text("\",\"id\":\""), Text(e.id),
            Text("\",\"params\":["),
            Join([i \in 1..Len(e.params) |-> JSONstring(Concat([j \in 1..Len(e.params[i]) |-> Text(e.params[i][j])]))]),
            Text("],\"path\":\""), PathText(e.path),
            Text("\",\"hasBufferInput\":"), JSONboolean(e.hasBufferInput),
            Text(",\"hasStreamInput\":"), JSONboolean(e.hasStreamInput),
            Text("}") >>)

\* JSON.stringify(exposed)
JSONstringify(list) ==
  Text("[") \o Join([i \in 1..Len(list) |-> JSONstringifyApi(list[i])]) \o Text("]")

\* exclusive or of two numbers below 16
Xor4 ==
  [a \in 0..15 |-> [b \in 0..15 |->
     LET Bit(n, k) == (n \div (2 ^ k)) % 2
     IN ((Bit(a, 0) + Bit(b, 0)) % 2)
          + 2 * ((Bit(a, 1) + Bit(b, 1)) % 2)
          + 4 * ((Bit(a, 2) + Bit(b, 2)) % 2)
          + 8 * ((Bit(a, 3) + Bit(b, 3)) % 2)]]

\* exclusive or of two bytes
Xor8(a, b) == 16 * Xor4[a \div 16][b \div 16] + Xor4[a % 16][b % 16]

\* exclusive or of two words of four bytes
Xor32(v, w) == [i \in 1..4 |-> Xor8(v[i], w[i])]

\* the reversed polynomial of CRC-32, 0xEDB88320
Polynomial == <<237, 184, 131, 32>>

\* a word shifted right by one bit
ShiftRight1(w) ==
  [i \in 1..4 |-> (w[i] \div 2) + (IF i > 1 THEN 128 * (w[i - 1] % 2) ELSE 0)]

\* a word shifted right by eight bits
ShiftRight8(w) == <<0, w[1], w[2], w[3]>>

\* one of the eight steps that compute an entry of the table
TableStep(w) ==
  IF w[4] % 2 = 1 THEN Xor32(Polynomial, ShiftRight1(w)) ELSE ShiftRight1(w)

\* the table of CRC-32
CrcTable ==
  [n \in 0..255 |->
     TableStep(TableStep(TableStep(TableStep(
       TableStep(TableStep(TableStep(TableStep(<<0, 0, 0, n>>))))))))]

\* the register of the CRC after one more byte
CrcStep(crc, byte) == Xor32(CrcTable[Xor8(crc[4], byte)], ShiftRight8(crc))

\* the register of the CRC after the bytes lo..hi of text, from the register
\* crc: the bytes are taken in order, one half of the range after the other
RECURSIVE CrcUpdate(_, _, _, _)
CrcUpdate(crc, text, lo, hi) ==
  IF lo > hi THEN crc
  ELSE IF lo = hi THEN CrcStep(crc, text[lo])
  ELSE LET mid == (lo + hi) \div 2
           half == CrcUpdate(crc, text, lo, mid)
       IN IF Len(half) = 4 THEN CrcUpdate(half, text, mid + 1, hi) ELSE half

AllOnes == <<255, 255, 255, 255>>

\* crc32(text)
crc32(text) == Xor32(CrcUpdate(AllOnes, text, 1, Len(text)), AllOnes)

\* the checksum of JSON.stringify(descriptors): the schemas are part of the text
checksumOf_Descriptors(ds) ==
  crc32(JSONstringify(Exposed(ds))
          \o Concat([i \in 1..Len(ds) |->
               Text(IF ds[i].payloadSchema = "absent" THEN "false" ELSE "true")
                 \o Text(IF ds[i].responseSchema = "absent" THEN "false" ELSE "true")]))

\* const exposed = descriptors.map(purge)
\* const checksum = crc32(JSON.stringify(exposed))
checksumOf(ds) == crc32(JSONstringify(Exposed(ds)))

----------------------------------------------------------------------------
(* State.                                                                  *)

VARIABLES
  opts,         \* the options start() was called with
  pc,           \* where start() is
  gi,           \* index of the group the loop of extractApis is at
  initState,    \* per group: "idle", "pending", "fulfilled" or "rejected"
  initOrder,    \* the groups whose init was invoked, in invocation order
  received,     \* per group: the options object its init was called with
  thrown,       \* the error an init threw or rejected with
  apis,         \* what the init of group gi resolved to
  nonObjects,   \* the groups whose init resolved to no plain object
  descriptors,  \* the descriptors pushed by extractApis
  routes,       \* the routes registered on the server
  started,      \* the server listens
  error,        \* the error start() rejected with
  exposed,      \* the exposed list extractApis returned
  request,      \* the request the server is handling
  stage,        \* where the handling of the request is
  invocation,   \* the arguments the exposed function was invoked with
  outcome,      \* what the exposed function returned or threw
  response,     \* the response sent for the request
  call,         \* the utility function under call and its arguments
  result,       \* what the utility function returned
  flights,      \* the requests in flight when the server handles several
  closure,      \* what the handlers of the routes closed over
  client        \* a client of the service, local or remote, and its calls

\* the state of a served request
serveVars == <<request, stage, invocation, outcome, response>>

\* the state of a call to a utility function
utilVars == <<call, result>>

\* the state of the requests in flight
flightVars == <<flights, closure>>

\* the state of a client
clientVars == <<client>>

vars == <<opts, pc, gi, initState, initOrder, received, thrown, apis,
          nonObjects, descriptors, routes, started, error, exposed,
          request, stage, invocation, outcome, response, call, result,
          flights, closure, client>>

GroupEntries == [hasName : BOOLEAN, hasInit : BOOLEAN]

NbGroups == Len(opts.groups)

\* The name of the i-th group: its index, 0 when the entry has no name.
GroupName(i) == IF opts.groups[i].hasName THEN i ELSE 0

\* groupOpts[name]: every value is marked with the group it belongs to.
GroupOptsOf(name) ==
  IF name \in DOMAIN opts.groupOpts
  THEN { [key |-> k, val |-> name] : k \in opts.groupOpts[name] }
  ELSE {}

InitErrors(i) == { [kind |-> "init", group |-> i, id |-> m] : m \in {"failed", "timeout"} }

NoRequest == [route |-> 0, body |-> "none", text |-> <<>>]

NoInvocation == [invoked |-> FALSE, args |-> <<>>]

NoOutcome == [kind |-> "none", value |-> "", isBoom |-> FALSE, status |-> 0, message |-> <<>>]

NoResponse ==
  [status |-> 0, message |-> <<>>, headers |-> {}, body |-> "none", apis |-> <<>>,
   name |-> "", version |-> ""]

NoClosure == [checksum |-> <<>>]

NoClient == [kind |-> "none"]

\* no request was received yet
NoRequestYet ==
  /\ request = NoRequest
  /\ stage = "idle"
  /\ invocation = NoInvocation
  /\ outcome = NoOutcome
  /\ response = NoResponse
  /\ flights = <<>>
  /\ closure = NoClosure
  /\ client = NoClient

NoCall == [fn |-> "none"]

NoResult == [fn |-> "none"]

\* no utility function is under call
NoCallYet == call = NoCall /\ result = NoResult

Init ==
  /\ \E n \in 0..MaxGroups :
       \E gs \in [1..n -> GroupEntries], go \in [1..n -> GroupOptChoices],
          hasName \in BOOLEAN, hasVersion \in BOOLEAN :
         opts = [hasName |-> hasName, hasVersion |-> hasVersion,
                 groups |-> gs, groupOpts |-> go]
  /\ pc = "start"
  /\ gi = 0
  /\ initState = [i \in 1..NbGroups |-> "idle"]
  /\ initOrder = <<>>
  /\ received = [i \in 1..NbGroups |-> {}]
  /\ thrown = NoError
  /\ apis = NoValue
  /\ nonObjects = {}
  /\ descriptors = <<>>
  /\ routes = <<>>
  /\ started = FALSE
  /\ error = NoError
  /\ exposed = <<>>
  /\ NoRequestYet
  /\ NoCallYet

----------------------------------------------------------------------------
(* start(options): validateOpts, then expose.                              *)

\* validateOpts with name no longer required
validateOpts_VersionOnly(options) ==
  IF ~options.hasVersion THEN [kind |-> "options", group |-> 0, id |-> "version"]
  ELSE NoError

\* joi.assert(options, {name: required, version: required, ...})
validateOpts(options) ==
  IF ~options.hasName THEN [kind |-> "options", group |-> 0, id |-> "name"]
  ELSE IF ~options.hasVersion THEN [kind |-> "options", group |-> 0, id |-> "version"]
  ELSE NoError

\* extractGroups(opts): every entry of groups has a name and an init.
extractGroups(options) ==
  LET bad == { i \in 1..Len(options.groups) :
                 ~options.groups[i].hasName \/ ~options.groups[i].hasInit }
  IN IF bad = {} THEN NoError
     ELSE LET i == CHOOSE j \in bad : \A k \in bad : j <= k
          IN [kind |-> "groups", group |-> i,
              id |-> IF ~options.groups[i].hasName THEN "name" ELSE "init"]

Fail(err) == pc' = "failed" /\ error' = err

ValidateOpts ==
  /\ pc = "start"
  /\ LET err == validateOpts(opts) IN
       IF err # NoError THEN Fail(err) ELSE pc' = "expose" /\ error' = error
  /\ UNCHANGED <<opts, gi, initState, initOrder, received, thrown, apis,
                 nonObjects, descriptors, routes, started, exposed>>
  /\ UNCHANGED <<serveVars, utilVars, flightVars, clientVars>>

\* extractApis entering its loop with the groups as given, unchecked
ExtractGroups_Unchecked ==
  /\ pc = "expose"
  /\ pc' = "loop" /\ gi' = 1 /\ error' = error
  /\ UNCHANGED <<opts, initState, initOrder, received, thrown, apis,
                 nonObjects, descriptors, routes, started, exposed>>
  /\ UNCHANGED <<serveVars, utilVars, flightVars, clientVars>>

\* extractApis, up to the loop over the groups
ExtractGroups ==
  /\ pc = "expose"
  /\ LET err == extractGroups(opts) IN
       IF err # NoError THEN Fail(err) /\ gi' = gi
       ELSE pc' = "loop" /\ gi' = 1 /\ error' = error
  /\ UNCHANGED <<opts, initState, initOrder, received, thrown, apis,
                 nonObjects, descriptors, routes, started, exposed>>
  /\ UNCHANGED <<serveVars, utilVars, flightVars, clientVars>>

\* init(...) without the await: the loop goes on with the next group
AwaitInit_Missing(i) == pc' = "loop" /\ gi' = i + 1

\* `await init(...)` on a pending promise: extractApis is suspended
AwaitInit(i) == pc' = "pending" /\ gi' = i

\* the error of an init caught and dropped: the loop goes on with the next group
RejectWith_Swallowed(i, err) == pc' = "loop" /\ gi' = i + 1 /\ error' = error

\* an init that threw or rejected: extractApis rejects with its error
RejectWith(i, err) == Fail(err) /\ gi' = i

\* init(Object.assign({ logger }, groupOpts[group])), synchronous or not
InvokeInit ==
  /\ pc = "loop"
  /\ gi <= NbGroups
  /\ IF ~opts.groups[gi].hasInit
     THEN \* TypeError: init is not a function
          /\ RejectWith(gi, [kind |-> "typeerror", group |-> gi, id |-> "init"])
          /\ UNCHANGED <<initState, initOrder, received, thrown, apis, nonObjects>>
     ELSE /\ initOrder' = Append(initOrder, gi)
          /\ received' = [received EXCEPT
                 ![gi] = ObjectAssign({ServiceLogger}, GroupOptsOf(GroupName(gi)))]
          /\ \/ \* asynchronous init: returns a pending promise
                /\ initState' = [initState EXCEPT ![gi] = "pending"]
                /\ AwaitInit(gi)
                /\ UNCHANGED <<thrown, apis, nonObjects, error>>
             \/ \* synchronous init that returns
                \E v \in InitValues :
                  /\ initState' = [initState EXCEPT ![gi] = "fulfilled"]
                  /\ apis' = v
                  /\ nonObjects' = IF v.kind \in NonObjectKinds
                                   THEN nonObjects \cup {gi} ELSE nonObjects
                  /\ pc' = "settled"
                  /\ UNCHANGED <<gi, thrown, error>>
             \/ \* synchronous init that throws
                \E err \in InitErrors(gi) :
                  /\ initState' = [initState EXCEPT ![gi] = "rejected"]
                  /\ thrown' = err
                  /\ RejectWith(gi, err)
                  /\ UNCHANGED <<apis, nonObjects>>
  /\ UNCHANGED <<opts, descriptors, routes, started, exposed>>
  /\ UNCHANGED <<serveVars, utilVars, flightVars, clientVars>>

\* the promise of an asynchronous init settles
SettleInit ==
  /\ pc = "pending"
  /\ initState[gi] = "pending"
  /\ \/ \E v \in InitValues :
          /\ initState' = [initState EXCEPT ![gi] = "fulfilled"]
          /\ apis' = v
          /\ nonObjects' = IF v.kind \in NonObjectKinds
                           THEN nonObjects \cup {gi} ELSE nonObjects
          /\ pc' = "settled"
          /\ UNCHANGED <<gi, thrown, error>>
     \/ \E err \in InitErrors(gi) :
          /\ initState' = [initState EXCEPT ![gi] = "rejected"]
          /\ thrown' = err
          /\ RejectWith(gi, err)
          /\ UNCHANGED <<apis, nonObjects>>
  /\ UNCHANGED <<opts, initOrder, received, descriptors, routes, started, exposed>>
  /\ UNCHANGED <<serveVars, utilVars, flightVars, clientVars>>

\* the body of the loop registering each route as soon as its descriptor is built
ProcessApis_RouteInLoop ==
  /\ pc = "settled"
  /\ IF ~isApi(apis)
     THEN /\ pc' = "loop" /\ gi' = gi + 1
          /\ UNCHANGED <<descriptors, routes, error>>
     ELSE LET r == ExtractDescriptors(GroupName(gi), apis.keys, descriptors) IN
          /\ descriptors' = r.descriptors
          /\ routes' = [i \in 1..Len(r.descriptors) |-> RouteOf(r.descriptors[i])]
          /\ IF r.error # NoError THEN Fail(r.error) /\ gi' = gi
             ELSE pc' = "loop" /\ gi' = gi + 1 /\ error' = error
  /\ UNCHANGED <<opts, initState, initOrder, received, thrown, apis,
                 nonObjects, started, exposed>>
  /\ UNCHANGED <<serveVars, utilVars, flightVars, clientVars>>

\* the body of the loop after the await: isApi, then one descriptor per key
ProcessApis ==
  /\ pc = "settled"
  /\ IF ~isApi(apis)
     THEN /\ pc' = "loop" /\ gi' = gi + 1
          /\ UNCHANGED <<descriptors, error>>
     ELSE LET r == ExtractDescriptors(GroupName(gi), apis.keys, descriptors) IN
          /\ descriptors' = r.descriptors
          /\ IF r.error # NoError THEN Fail(r.error) /\ gi' = gi
             ELSE pc' = "loop" /\ gi' = gi + 1 /\ error' = error
  /\ UNCHANGED <<opts, initState, initOrder, received, thrown, apis,
                 nonObjects, routes, started, exposed>>
  /\ UNCHANGED <<serveVars, utilVars, flightVars, clientVars>>

\* expose starting the server before the documentation is registered
ExposeSequence_ListenFirst == <<"route", "listen", "document">>

\* expose, after extractApis: the statements of its try block, in order
ExposeSequence == <<"route", "document", "listen">>

AfterExpose(step) ==
  LET i == CHOOSE j \in 1..Len(ExposeSequence) : ExposeSequence[j] = step IN
  IF i < Len(ExposeSequence) THEN ExposeSequence[i + 1] ELSE "done"

\* extractApis returns: the loop is over, the exposed list is the
\* descriptors purged
FinishExtract ==
  /\ pc = "loop"
  /\ gi > NbGroups
  /\ exposed' = Exposed(descriptors)
  /\ pc' = ExposeSequence[1]
  /\ UNCHANGED <<opts, gi, initState, initOrder, received, thrown, apis,
                 nonObjects, descriptors, routes, started, error>>
  /\ UNCHANGED <<serveVars, utilVars, flightVars, clientVars>>

\* new Server, the route of the exposed list, one route per descriptor
RegisterRoutes ==
  /\ pc = "route"
  /\ routes' = <<ExposedRoute>> \o [i \in 1..Len(descriptors) |-> RouteOf(descriptors[i])]
  /\ pc' = AfterExpose("route")
  /\ UNCHANGED <<opts, gi, initState, initOrder, received, thrown, apis,
                 nonObjects, descriptors, started, error, exposed>>
  /\ UNCHANGED <<serveVars, utilVars, flightVars, clientVars>>

\* if (openApi) await exposeDocumentation(...): nothing to do without openApi;
\* with it, registering the plugins succeeds or fails
ExposeDocumentation ==
  /\ pc = "document"
  /\ \/ pc' = AfterExpose("document") /\ error' = error
     \/ Fail([kind |-> "documentation", group |-> 0, id |-> ""])
  /\ UNCHANGED <<opts, gi, initState, initOrder, received, thrown, apis,
                 nonObjects, descriptors, routes, started, exposed>>
  /\ UNCHANGED <<serveVars, utilVars, flightVars, clientVars>>

\* await server.start(): listens, or fails (port in use)
ServerStart ==
  /\ pc = "listen"
  /\ \/ started' = TRUE /\ pc' = AfterExpose("listen") /\ error' = error
     \/ started' = FALSE /\ Fail([kind |-> "listen", group |-> 0, id |-> ""])
  /\ UNCHANGED <<opts, gi, initState, initOrder, received, thrown, apis,
                 nonObjects, descriptors, routes, exposed>>
  /\ UNCHANGED <<serveVars, utilVars, flightVars, clientVars>>

Next ==
  \/ ValidateOpts
  \/ ExtractGroups
  \/ InvokeInit
  \/ SettleInit
  \/ ProcessApis
  \/ FinishExtract
  \/ RegisterRoutes
  \/ ExposeDocumentation
  \/ ServerStart

Spec == Init /\ [][Next]_vars

----------------------------------------------------------------------------
(* Calls to the utility functions: the marshalling of the arguments, the   *)
(* validation of the values of a call, the checksum of a registration.     *)

\* the service before start() is called
NotStarted ==
  /\ opts = [hasName |-> TRUE, hasVersion |-> TRUE, groups |-> <<>>, groupOpts |-> <<>>]
  /\ pc = "start"
  /\ gi = 0
  /\ initState = <<>>
  /\ initOrder = <<>>
  /\ received = <<>>
  /\ thrown = NoError
  /\ apis = NoValue
  /\ nonObjects = {}
  /\ descriptors = <<>>
  /\ routes = <<>>
  /\ started = FALSE
  /\ error = NoError
  /\ exposed = <<>>

registrationVars ==
  <<opts, pc, gi, initState, initOrder, received, thrown, apis, nonObjects,
    descriptors, routes, started, error, exposed>>

ArgValues == {"1", "x", Undefined}

\* the arrays of at most MaxArgs arguments
Arrays == UNION { [1..n -> ArgValues] : n \in 0..MaxArgs }

\* lists of parameter names, a name declared twice among them as a
\* function of a script may: function (a, a) {}
NameLists == UNION { [1..n -> {"a", "b", "c"}] : n \in 0..MaxArgs }

\* the validated functions of the sample service: their parameters, and the
\* type each schema of validate requires
ValidatedApis ==
  { [id |-> "greeting", params |-> <<"name">>, validate |-> <<"string">>],
    [id |-> "add", params |-> <<"a", "b">>, validate |-> <<"number", "number">>] }

\* add with another body and no validation, ping with a response schema
Variant(id) ==
  IF id = "add"
  THEN [Api("add") EXCEPT !.validate = "absent",
                          !.decl = <<"(", "a", SEP, "b", ")", "=>", "b + a">>]
  ELSE [Api(id) EXCEPT !.responseSchema = "schema"]

\* the functions of the registrations whose checksums are compared
Registrations ==
  { <<>>,
    <<Api("ping"), Api("add")>>,
    <<Variant("ping"), Variant("add")>>,
    <<Api("ping")>>,
    <<Api("ping"), Api("add"), Api("subtract")>>,
    <<Api("ping"), Api("subtract")>>,
    <<Api("add"), Api("ping")>>,
    <<Api("plumless")>>,
    <<Api("buckeroo")>>,
    <<Api("ping"), Api("plumless")>>,
    <<Api("ping"), Api("buckeroo")>> }

\* the descriptors extractApis builds for one group exposing the functions fns
DescriptorsOf(fns) == [i \in 1..Len(fns) |-> Descriptor(1, fns[i])]

\* The parameters a function may declare: the name, and the text of the
\* declaration. The rest parameter is the last of its list.
Parameters ==
  { [name |-> "a", text |-> <<"a">>, rest |-> FALSE],
    [name |-> "b", text |-> <<"b">>, rest |-> FALSE],
    [name |-> "c", text |-> <<"c", "=", "false">>, rest |-> FALSE],
    [name |-> "d", text |-> <<"d", "=", "f", "(", "1", ")">>, rest |-> FALSE],
    [name |-> "e", text |-> <<"e", "=", "[1", SEP, "2]">>, rest |-> FALSE],
    [name |-> "other", text |-> <<"...", "other">>, rest |-> TRUE] }

ParameterLists ==
  { l \in UNION { [1..n -> Parameters] : n \in 0..MaxArgs } :
      \A i \in 1..(Len(l) - 1) : ~l[i].rest }

\* The functions getParamNames is given: the form of the declaration, its
\* parameters, and what the source has between two parameters (", " or ",").
Functions ==
  { [kind |-> "function", form |-> f, params |-> l, separator |-> s] :
      f \in {"method", "declaration", "anonymous", "arrow"},
      l \in ParameterLists, s \in {SEP, ","} }
    \cup { [kind |-> "function", form |-> f, params |-> <<x>>, separator |-> SEP] :
             f \in {"bare arrow", "async bare arrow"},
             x \in { y \in Parameters : y.text = <<y.name>> } }

\* The values that are no function: null, undefined, {} and the regular
\* expression /a(b)/
NonFunctions ==
  { [kind |-> k, form |-> "none", params |-> <<>>, separator |-> SEP] :
      k \in {"null", "undefined", "object", "regexp"} }

RECURSIVE JoinParameters(_, _, _)
JoinParameters(l, i, separator) ==
  IF i > Len(l) THEN <<>>
  ELSE (IF i = 1 THEN <<>> ELSE <<separator>>) \o l[i].text
         \o JoinParameters(l, i + 1, separator)

\* (fn || '').toString(): the source text of a function, '' for null and
\* undefined, the string form of another value
DeclarationOf(fn) ==
  IF fn.kind \in {"null", "undefined"} THEN <<>>
  ELSE IF fn.kind = "object" THEN <<"[object Object]">>
  ELSE IF fn.kind = "regexp" THEN <<"/a", "(", "b", ")", "/">>
  ELSE IF fn.form = "bare arrow" THEN <<fn.params[1].name, "=>", "{}">>
  ELSE IF fn.form = "async bare arrow" THEN <<"async", fn.params[1].name, "=>", "{}">>
  ELSE (CASE fn.form = "method" -> <<"named">>
          [] fn.form = "declaration" -> <<"function named">>
          [] fn.form = "anonymous" -> <<"function">>
          [] fn.form = "arrow" -> <<>>)
         \o <<"(">> \o JoinParameters(fn.params, 1, fn.separator) \o <<")">>
         \o (IF fn.form = "arrow" THEN <<"=>", "{}">> ELSE <<"{}">>)

UtilInit ==
  /\ NotStarted
  /\ NoRequestYet
  /\ result = NoResult
  /\ \/ \E args \in Arrays, names \in NameLists :
          call = [fn |-> "arrayToObj", args |-> args, names |-> names]
     \/ \E api \in ValidatedApis, args \in Arrays, expected \in 0..MaxArgs :
          call = [fn |-> "validateParams", api |-> api, args |-> args,
                  expected |-> expected]
     \/ \E left \in Registrations, right \in Registrations :
          call = [fn |-> "extractApis", left |-> left, right |-> right]
     \/ \E fn \in Functions \cup NonFunctions :
          call = [fn |-> "getParamNames", arg |-> fn]

\* a client names the arguments of a call, the handler of the route turns
\* the payload into arguments again
Marshal ==
  /\ call.fn = "arrayToObj"
  /\ result = NoResult
  /\ LET obj == arrayToObj(call.args, call.names) IN
       result' = [fn |-> call.fn, obj |-> obj, args |-> HandlerArgs(obj, call.names)]
  /\ UNCHANGED <<registrationVars, serveVars, call, flightVars, clientVars>>

\* the values of a call are validated as registerLocal and registerAsPlugins do
ValidateParams ==
  /\ call.fn = "validateParams"
  /\ result = NoResult
  /\ LET values == arrayToObj(call.args, call.api.params)
         schema == arrayToObj(call.api.validate, call.api.params)
         r == validateParams(values, schema, call.api.id, call.expected)
     IN result' = [fn |-> call.fn, values |-> values, schema |-> schema,
                   error |-> r.error, consulted |-> r.consulted]
  /\ UNCHANGED <<registrationVars, serveVars, call, flightVars, clientVars>>

\* two registrations: the exposed list and the checksum of each
Checksums ==
  /\ call.fn = "extractApis"
  /\ result = NoResult
  /\ result' = [fn |-> call.fn,
                left |-> [exposed |-> Exposed(DescriptorsOf(call.left)),
                          checksum |-> checksumOf(DescriptorsOf(call.left))],
                right |-> [exposed |-> Exposed(DescriptorsOf(call.right)),
                           checksum |-> checksumOf(DescriptorsOf(call.right))]]
  /\ UNCHANGED <<registrationVars, serveVars, call, flightVars, clientVars>>

\* the names of the parameters of a function, or the error thrown
GetParamNames ==
  /\ call.fn = "getParamNames"
  /\ result = NoResult
  /\ LET r == getParamNames(DeclarationOf(call.arg)) IN
       result' = [fn |-> call.fn, status |-> r.status, params |-> r.params]
  /\ UNCHANGED <<registrationVars, serveVars, call, flightVars, clientVars>>

UtilNext ==
  \/ Marshal
  \/ ValidateParams
  \/ Checksums
  \/ GetParamNames

UtilSpec == UtilInit /\ [][UtilNext]_vars

----------------------------------------------------------------------------
(* The started server handling requests, one at a time: the router looks  *)
(* the route up, parses and validates the payload, calls the handler,     *)
(* validates its response and sends it.                                    *)

\* What the inits of the groups of a served service resolve to.
ServedServices ==
  { <<>>,
    << [kind |-> "object", keys |-> <<"ping", "add", "greeting">>] >>,
    << [kind |-> "object", keys |-> <<"ping", "add", "greeting">>],
       [kind |-> "array", keys |-> <<"0">>],
       [kind |-> "object",
        keys |-> <<"failing", "errored", "boomError", "rejecting", "subtract">>] >>,
    << [kind |-> "object",
        keys |-> <<"bufferHandling", "streamHandling", "validatedPing", "destructured">>] >>,
    << [kind |-> "object",
        keys |-> <<"looseGreeting", "documentedGreeting", "bufferChecked">>] >>,
    << [kind |-> "object",
        keys |-> <<"bufferWithExtra", "bufferless", "bothInputs">>] >>,
    << [kind |-> "object", keys |-> <<"sum", "subtract">>] >> }

\* the descriptors extractApis builds when the inits resolve to values
RECURSIVE ExtractAll(_, _, _)
ExtractAll(values, g, acc) ==
  IF g > Len(values) THEN acc
  ELSE IF ~isApi(values[g]) THEN ExtractAll(values, g + 1, acc)
  ELSE ExtractAll(values, g + 1, ExtractDescriptors(g, values[g].keys, acc).descriptors)

\* the server once start() has resolved, before its first request
ServeInit ==
  /\ \E values \in ServedServices :
       /\ opts = [hasName |-> TRUE, hasVersion |-> TRUE,
                  groups |-> [i \in 1..Len(values) |-> [hasName |-> TRUE, hasInit |-> TRUE]],
                  groupOpts |-> [i \in 1..Len(values) |-> {}],
                  resolved |-> values]
       /\ apis = IF values = <<>> THEN NoValue ELSE values[Len(values)]
       /\ nonObjects = { i \in 1..Len(values) : values[i].kind \in NonObjectKinds }
       /\ descriptors = ExtractAll(values, 1, <<>>)
  /\ pc = "done"
  /\ gi = NbGroups + 1
  /\ initState = [i \in 1..NbGroups |-> "fulfilled"]
  /\ initOrder = [i \in 1..NbGroups |-> i]
  /\ received = [i \in 1..NbGroups |-> ObjectAssign({ServiceLogger}, GroupOptsOf(GroupName(i)))]
  /\ thrown = NoError
  /\ exposed = Exposed(descriptors)
  /\ routes = <<ExposedRoute>> \o [i \in 1..Len(descriptors) |-> RouteOf(descriptors[i])]
  /\ started = TRUE
  /\ error = NoError
  /\ NoRequestYet
  /\ NoCallYet

checksumHeader == "x-service-crc"

\* the checksum of the exposed list but for its last API
checksum_Partial ==
  checksumOf(SubSeq(descriptors, 1, Len(descriptors) - 1))

\* the checksum extractApis returned, which every route is registered with
checksum == checksumOf(descriptors)

\* The texts of the JSON payloads of the requests: the properties in the
\* order of the text.
PayloadTexts ==
  { <<>>,
    << [key |-> "a", val |-> "1"], [key |-> "b", val |-> "2"] >>,
    << [key |-> "a", val |-> "x"], [key |-> "b", val |-> "5"] >>,
    << [key |-> "a", val |-> "1"], [key |-> "b", val |-> "2"],
       [key |-> "2", val |-> "3"], [key |-> "extra", val |-> "4"] >>,
    << [key |-> "extra", val |-> "4"], [key |-> "2", val |-> "3"],
       [key |-> "b", val |-> "2"] >>,
    << [key |-> "a", val |-> "1"], [key |-> "b", val |-> "2"],
       [key |-> "c", val |-> "3"] >>,
    << [key |-> "a", val |-> "1"], [key |-> "1", val |-> "2"] >>,
    << [key |-> "name", val |-> "John"] >>,
    << [key |-> "name", val |-> "boom"] >>,
    << [key |-> "{c: {d}}", val |-> "10"], [key |-> "0", val |-> "x"] >> }

\* the descriptor a route was registered for
DescriptorOf(r) == descriptors[r - 1]

\* the payload of every function parsed and validated
parseAndValidate_Always(d) == d.id = d.id

\* the payload parsed unless the function is flagged hasBufferInput
parseAndValidate_BufferOnly(d) == ~d.hasBufferInput

\* const parseAndValidate = !hasStreamInput && !hasBufferInput
parseAndValidate(d) == ~d.hasStreamInput /\ ~d.hasBufferInput

\* the names of the parameters of a descriptor
ParamNames(d) == [i \in 1..Len(d.params) |-> d.params[i][1]]

\* the type each schema of the validate of a function requires
ValidateOf(id) ==
  IF id \in {"add", "sum"} THEN <<"number", "number">>
  ELSE IF Api(id).validate = "schemas" THEN <<"string">>
  ELSE <<>>

\* options.validate set whatever the number of parameters
HasPayloadValidation_WithoutParams(d) ==
  parseAndValidate(d) /\ d.payloadSchema # "absent"

\* options.validate is set: if (params.length) { if (parseAndValidate && payloadSchema)
HasPayloadValidation(d) ==
  Len(d.params) # 0 /\ parseAndValidate(d) /\ d.payloadSchema # "absent"

\* options.response set for the functions flagged buffer or stream too
ResponseSample_Flagged(d) ==
  IF d.responseSchema # "absent" /\ d.validateResponse THEN 100 ELSE 0

\* every response validated as soon as there is a responseSchema
ResponseSample_Always(d) ==
  IF parseAndValidate(d) /\ d.responseSchema # "absent" THEN 100 ELSE 0

\* options.response is set, with sample: validateResponse ? 100 : 0
ResponseSample(d) ==
  IF parseAndValidate(d) /\ d.responseSchema # "absent"
  THEN (IF d.validateResponse THEN 100 ELSE 0)
  ELSE 0

\* joi.object(arrayToObj(payloadSchema, params)).unknown(false).label(id)
PayloadSchema(d) == arrayToObj(ValidateOf(d.id), ParamNames(d))

\* enrichError(err, id): the validation error of a payload, 400 Bad Request
\* with a message that names the API; enrichError(err, id, false): the
\* validation error of a response, 512 Bad Response
enrichError(err, id, input) ==
  [status |-> IF input THEN 400 ELSE 512,
   message |-> << IF input THEN "Incorrect parameters for API "
                           ELSE "Incorrect response for API ",
                  id, ": ", err.key, err.detail >>,
   headers |-> {}, body |-> "error", apis |-> <<>>, name |-> "", version |-> ""]

\* a failAction that lets the request go on to the handler
PayloadFailAction_Ignore(err, id) ==
  [takeover |-> FALSE, response |-> enrichError(err, id, TRUE)]

\* failAction: (req, h, err) => enrichError(err, id): the error is the response
PayloadFailAction(err, id) ==
  [takeover |-> TRUE, response |-> enrichError(err, id, TRUE)]

\* What the exposed functions do with their arguments: the value returned
\* (or resolved), or the value thrown (or rejected).
Returned(value) ==
  [kind |-> "returned", value |-> value, isBoom |-> FALSE, status |-> 0, message |-> <<>>]

Threw(value, isBoom, status, message) ==
  [kind |-> "threw", value |-> value, isBoom |-> isBoom, status |-> status,
   message |-> message]

Outcomes(id, args) ==
  IF id \in {"greeting", "looseGreeting", "documentedGreeting"}
  THEN { IF At(args, 1) = "boom" THEN Returned("null") ELSE Returned("string") }
  ELSE IF id = "failing"
  THEN { Threw("error", FALSE, 0, <<"something went really bad">>) }
  ELSE IF id = "errored"
  THEN { Threw("error", FALSE, 0, <<"errored API">>) }
  ELSE IF id = "boomError"
  THEN { Threw("error", TRUE, 401, <<"Custom authorization error">>) }
  ELSE IF id = "rejecting"
  THEN { Threw("undefined", FALSE, 0, <<>>), Threw("null", FALSE, 0, <<>>) }
  ELSE IF id \in {"bufferHandling", "bufferChecked", "bufferWithExtra"}
  THEN { Returned("buffer") }
  ELSE IF id \in {"streamHandling", "bothInputs"} THEN { Returned("stream") }
  ELSE { Returned("json") }

\* the value a response schema accepts: the string greeting is to return
ResponseValid(value) == value = "string"

\* boomify(err, { statusCode, message }): boom is no part of the sources;
\* the message of the error is the message given, or the message given put
\* before the message the error had.
boomify(err, statusCode, message) ==
  { [status |-> statusCode, message |-> m, headers |-> {}, body |-> "error",
     apis |-> <<>>, name |-> "", version |-> ""] :
      m \in { message, message \o <<": ">> \o err.message } }

\* the response of the router to an error that is no boom error
InternalError ==
  [status |-> 500, message |-> <<"An internal server error occurred">>,
   headers |-> {}, body |-> "error", apis |-> <<>>, name |-> "", version |-> ""]

\* the catch of the handler wrapping every error, boom errors included
Caught_AlwaysWrapped(id, err) ==
  IF err.value \in {"null", "undefined"} THEN {InternalError}
  ELSE boomify(err, 599, <<"Error while calling API ", id, ": ">> \o err.message)

\* catch (err) { if (!err.isBoom) throw boomify(...); throw err }: reading
\* isBoom of null or undefined is a TypeError
Caught(id, err) ==
  IF err.value \in {"null", "undefined"} THEN {InternalError}
  ELSE IF ~err.isBoom
  THEN boomify(err, 599, <<"Error while calling API ", id, ": ">> \o err.message)
  ELSE { [status |-> err.status, message |-> err.message, headers |-> {},
          body |-> "error", apis |-> <<>>, name |-> "", version |-> ""] }

\* the headers of a response that reports an error, the checksum among them
ErrorHeaders_WithChecksum(r) ==
  [r EXCEPT !.headers = {[name |-> checksumHeader, value |-> checksum]}]

\* the response the router sends for an error: the headers of the error
ErrorHeaders(r) == r

\* h.response(res).header(checksumHeader, checksum), or for a stream
\* res.headers = { [checksumHeader]: checksum }
Success(value) ==
  [status |-> 200, message |-> <<>>,
   headers |-> {[name |-> checksumHeader, value |-> checksum]},
   body |-> value, apis |-> <<>>, name |-> "", version |-> ""]

\* a request comes in: GET without payload; POST with the text of a JSON
\* object or without body when the route parses its payload (req.payload
\* is then null), with the raw bytes or stream when it does not
Receive ==
  /\ stage \in {"idle", "responded"}
  /\ \E r \in 1..Len(routes) :
       \E body \in {"none", "json", "raw"}, text \in PayloadTexts :
         /\ routes[r].method = "GET" => body = "none"
         /\ (r > 1 /\ routes[r].method = "POST") =>
              (body = "raw") = ~parseAndValidate(DescriptorOf(r))
         /\ body # "json" => text = <<>>
         /\ request' = [route |-> r, body |-> body, text |-> text]
  /\ stage' = "received"
  /\ invocation' = NoInvocation
  /\ outcome' = NoOutcome
  /\ response' = NoResponse
  /\ UNCHANGED <<registrationVars, utilVars, flightVars, clientVars>>

\* req.payload: the object parsed from the text, the raw bytes or stream,
\* or nothing
Payload ==
  IF request.body = "json" THEN JSONparse(request.text, <<>>) ELSE <<>>

\* the handler of /api/exposed: { name, version, apis: exposed }
ServeExposed ==
  /\ stage = "received"
  /\ request.route = 1
  /\ response' = [status |-> 200, message |-> <<>>, headers |-> {}, body |-> "json",
                  apis |-> exposed,
                  name |-> IF opts.hasName THEN "name" ELSE Undefined,
                  version |-> IF opts.hasVersion THEN "version" ELSE Undefined]
  /\ stage' = "responded"
  /\ UNCHANGED <<registrationVars, utilVars, flightVars, clientVars, request, invocation, outcome>>

\* the router validates the payload against options.validate, when set
ValidatePayload ==
  /\ stage = "received"
  /\ request.route > 1
  /\ LET d == DescriptorOf(request.route)
         err == IF ~HasPayloadValidation(d) THEN NoValidationError
                ELSE IF request.body = "none" THEN NullPayloadError
                ELSE SchemaValidate(Payload, PayloadSchema(d))
         action == PayloadFailAction(err, d.id)
     IN IF err # NoValidationError /\ action.takeover
        THEN response' = ErrorHeaders(action.response) /\ stage' = "responded"
        ELSE response' = response /\ stage' = "validated"
  /\ UNCHANGED <<registrationVars, utilVars, flightVars, clientVars, request, invocation, outcome>>

\* the handler builds the arguments and calls the exposed function
Invoke ==
  /\ stage = "validated"
  /\ LET d == DescriptorOf(request.route)
         args == IF ~parseAndValidate(d)
                 THEN << IF request.body = "raw" THEN "raw" ELSE "{}" >>
                 ELSE HandlerArgs(Payload, ParamNames(d))
     IN /\ invocation' = [invoked |-> TRUE, args |-> args]
        /\ \E o \in Outcomes(d.id, args) : outcome' = o
  /\ stage' = "invoked"
  /\ UNCHANGED <<registrationVars, utilVars, flightVars, clientVars, request, response>>

\* the exposed function returned or threw: the handler returns the response
\* with the checksum, or throws
Complete ==
  /\ stage = "invoked"
  /\ LET d == DescriptorOf(request.route) IN
       IF outcome.kind = "returned"
       THEN response' = Success(outcome.value) /\ stage' = "handled"
       ELSE /\ \E r \in Caught(d.id, outcome) : response' = ErrorHeaders(r)
            /\ stage' = "responded"
  /\ UNCHANGED <<registrationVars, utilVars, flightVars, clientVars, request, invocation, outcome>>

\* the router validates the response against options.response, when sampled
ValidateResponse ==
  /\ stage = "handled"
  /\ LET d == DescriptorOf(request.route) IN
       IF ResponseSample(d) = 100 /\ ~ResponseValid(outcome.value)
       THEN response' = ErrorHeaders(enrichError(
                          [key |-> d.id \o "Result", detail |-> "must be of its type"],
                          d.id, FALSE))
       ELSE response' = response
  /\ stage' = "responded"
  /\ UNCHANGED <<registrationVars, utilVars, flightVars, clientVars, request, invocation, outcome>>

ServeNext ==
  \/ Receive
  \/ ServeExposed
  \/ ValidatePayload
  \/ Invoke
  \/ Complete
  \/ ValidateResponse

ServeSpec == ServeInit /\ [][ServeNext]_vars

----------------------------------------------------------------------------
(* Properties of the registration pipeline.                                *)

Invoked == { initOrder[k] : k \in 1..Len(initOrder) }

Invocations(i) == Cardinality({ k \in 1..Len(initOrder) : initOrder[k] = i })

Settled(i) == initState[i] \in {"fulfilled", "rejected"}

DescribedGroups == { descriptors[k].group : k \in 1..Len(descriptors) }

RoutedGroups == { routes[k].path.group : k \in 1..Len(routes) }

MalformedGroups ==
  { i \in 1..NbGroups : ~opts.groups[i].hasName \/ ~opts.groups[i].hasInit }

\* C1: the inits are invoked in declaration order, and the init of group
\* i+1 is never invoked before the init of group i has settled, whether the
\* inits are synchronous or asynchronous.
C1_SequentialInit ==
  /\ initOrder = [k \in 1..Len(initOrder) |-> k]
  /\ \A i \in 1..NbGroups : (initState[i] # "idle") = (i \in Invoked)
  /\ \A i \in 1..(NbGroups - 1) : (i + 1) \in Invoked => Settled(i)

\* the third group was invoked while it is pending, after the two before it
C1_Witness ==
  /\ NbGroups = 3
  /\ initOrder = <<1, 2, 3>>
  /\ initState = <<"fulfilled", "fulfilled", "pending">>

\* C2: when the init of group k rejects or throws, the exposure fails with
\* that same error, no later init is ever invoked, and every earlier init was
\* invoked exactly once and keeps its effects.
C2_FailFast ==
  \A k \in 1..NbGroups :
    initState[k] = "rejected" =>
      /\ pc = "failed"
      /\ error = thrown
      /\ error \in InitErrors(k)
      /\ ~started
      /\ \A j \in (k + 1)..NbGroups : j \notin Invoked /\ initState[j] = "idle"
      /\ \A j \in 1..(k - 1) :
           /\ Invocations(j) = 1
           /\ initState[j] = "fulfilled"
           /\ Keys(received[j]) # {}

\* the second of three groups failed after the first exposed its functions
C2_Witness ==
  /\ NbGroups = 3
  /\ initState = <<"fulfilled", "rejected", "idle">>
  /\ Len(descriptors) = 2
  /\ pc = "failed"

\* C3: whenever a registration-time error occurs, the exposure rejects and
\* the server is never left started.
C3_NoPartialStartup ==
  /\ (error # NoError) = (pc = "failed")
  /\ pc = "failed" => ~started
  /\ started => pc = "done"

\* the routes were registered, and the server failed to listen
C3_Witness ==
  /\ pc = "failed"
  /\ error.kind = "listen"
  /\ Len(routes) = 3
  /\ ~started

\* C4: a group whose init resolves to null, undefined, a string, a boolean
\* or an array contributes no descriptor and no route, raises no error, and
\* the initialization continues with the next group.
C4_NonObjectIgnored ==
  \A g \in nonObjects :
    /\ g \notin DescribedGroups
    /\ g \notin RoutedGroups
    /\ error.group # g
    /\ (gi = g => pc = "settled" /\ apis.kind \in NonObjectKinds)
    /\ gi >= g

\* the second group resolved to an array, and the third was invoked next
C4_Witness ==
  /\ NbGroups = 3
  /\ 2 \in nonObjects
  /\ apis.kind = "array"
  /\ initOrder = <<1, 2, 3>>
  /\ Len(descriptors) = 2

\* C5: each init is called with one options object: the service logger
\* under logger plus every key of groupOpts[group.name], no key of another
\* group, the group's own value winning on a collision.
C5_InitOptions ==
  \A i \in Invoked :
    /\ Keys(received[i]) = {"logger"} \cup opts.groupOpts[i]
    /\ Cardinality(received[i]) = Cardinality(Keys(received[i]))
    /\ \A p \in received[i] :
         IF p.key \in opts.groupOpts[i] THEN p.val = i
         ELSE p = ServiceLogger

\* two groups were invoked, the first with a logger of its own, the second
\* with another set of options
C5_Witness ==
  /\ NbGroups >= 2
  /\ opts.groupOpts[1] = {"logger", "level"}
  /\ opts.groupOpts[2] = {}
  /\ {1, 2} \subseteq Invoked

\* C6: start() validates name and version before any init: when either is
\* missing, start fails and no init has run.
C6_OptionsFirst ==
  (~opts.hasName \/ ~opts.hasVersion) =>
    /\ initOrder = <<>>
    /\ pc \in {"start", "failed"}
    /\ pc = "failed" => error.kind = "options"

\* start() failed for a service without name whose groups are well formed
C6_Witness ==
  /\ pc = "failed"
  /\ ~opts.hasName
  /\ opts.hasVersion
  /\ NbGroups = 2
  /\ MalformedGroups = {}

\* C7: when an entry of groups lacks a name or an init, the exposure fails
\* with a configuration error before the init of any group is invoked, the
\* well-formed groups declared before it included.
C7_GroupsFirst ==
  MalformedGroups # {} =>
    /\ initOrder = <<>>
    /\ pc \in {"start", "expose", "failed"}
    /\ pc = "failed" => error.kind \in {"options", "groups"}

\* the second group has no init, the first is well formed
C7_Witness ==
  /\ pc = "failed"
  /\ error = [kind |-> "groups", group |-> 2, id |-> "init"]
  /\ MalformedGroups = {2}

\* C8 as stated: every configuration error, a malformed validation schema
\* included, aborts startup before any init is invoked and before any route
\* is registered.
C8_AsStated ==
  error.kind \in {"options", "groups", "api"} => initOrder = <<>> /\ routes = <<>>

\* C8, amended: every configuration error aborts startup before any route
\* is registered; a missing name or version and a malformed group entry
\* abort it before any init is invoked; a malformed validation schema is
\* found once the init of its group and of every group before it were
\* invoked, and before the init of any later group.
C8_ConfigurationErrors ==
  /\ error.kind \in {"options", "groups", "api"} => routes = <<>> /\ ~started
  /\ error.kind \in {"options", "groups"} => initOrder = <<>>
  /\ error.kind = "api" =>
       /\ error.group \in 1..NbGroups
       /\ initOrder = [k \in 1..error.group |-> k]
       /\ \A j \in 1..error.group : initState[j] = "fulfilled"

\* a malformed validate was found in the second group, after a descriptor
\* of the first and one of the second were built
C8_Witness ==
  /\ pc = "failed"
  /\ error.kind = "api"
  /\ error.group = 2
  /\ Len(descriptors) = 3
  /\ routes = <<>>

\* Metadata the documentation rules out: a validate that is no array of
\* schemas, a validateResponse without responseSchema.
InvalidMetadata(api) ==
  \/ api.validate \notin {"absent", "schemas"}
  \/ api.validateResponse # "absent" /\ api.responseSchema = "absent"

InvalidIds(keys) == { k \in 1..Len(keys) : InvalidMetadata(Api(keys[k])) }

\* C9: when a function of group g with id i carries invalid metadata, the
\* registration is aborted with an error that names i and g, no descriptor
\* is produced for i, and no group declared after g is initialized.
C9_InvalidApi ==
  /\ error.kind = "api" =>
       /\ pc = "failed"
       /\ apis.kind = "object"
       /\ error.group = gi
       /\ \E k \in InvalidIds(apis.keys) :
            /\ error.id = apis.keys[k]
            /\ \A j \in 1..(k - 1) : j \notin InvalidIds(apis.keys)
  /\ (apis.kind = "object" /\ pc # "settled" /\ InvalidIds(apis.keys) # {}) =>
       /\ pc = "failed"
       /\ error.kind \in {"api", "signature"}
       /\ error.group = gi
       /\ \A k \in InvalidIds(apis.keys) :
            ~\E d \in 1..Len(descriptors) :
               descriptors[d].group = gi /\ descriptors[d].id = apis.keys[k]
       /\ \A j \in (gi + 1)..NbGroups : j \notin Invoked
       /\ routes = <<>>

\* invalidValidator of the second of three groups stopped the registration
C9_Witness ==
  /\ NbGroups = 3
  /\ error = InvalidApiError(2, "invalidValidator")
  /\ \E d \in 1..Len(descriptors) : descriptors[d].group = 2 /\ descriptors[d].id = "add"
  /\ initOrder = <<1, 2>>

\* C10: the route of an exposed function is GET exactly when its extracted
\* parameter names are empty and POST otherwise, also when its only
\* parameter is destructured or has a default value.
C10_MethodSelection ==
  pc \in {"document", "listen", "done"} =>
    /\ Len(routes) = Len(descriptors) + 1
    /\ routes[1] = ExposedRoute
    /\ \A k \in 1..Len(descriptors) :
         LET d == descriptors[k]
             r == routes[k + 1]
         IN /\ r.path = d.path
            /\ r.method \in {"GET", "POST"}
            /\ (r.method = "GET") = (d.params = <<>>)
            /\ d.id \in {"greeting", "destructured"} =>
                 Len(d.params) = 1 /\ r.method = "POST"
            /\ d.id = "ping" => r.method = "GET"

\* the server runs with ping, greeting (a default value) and destructured
C10_Witness ==
  /\ started
  /\ \E k \in 1..Len(routes) : routes[k].path.id = "greeting" /\ routes[k].method = "POST"
  /\ \E k \in 1..Len(routes) : routes[k].path.id = "destructured" /\ routes[k].method = "POST"
  /\ \E k \in 1..Len(routes) : routes[k].path.id = "ping" /\ routes[k].method = "GET"

----------------------------------------------------------------------------
(* Properties of the exposed list and of its checksum.                     *)

\* the entry of the exposed list for the function id of group g
ExpectedEntry(g, id) ==
  [group |-> g, id |-> id,
   params |-> getParamNames(Api(id).decl).params,
   path |-> [base |-> "/api", group |-> g, id |-> id],
   hasBufferInput |-> (Api(id).hasBufferInput = "true"),
   hasStreamInput |-> (Api(id).hasStreamInput = "true")]

\* one entry per function of every map, in the order of the groups then of
\* the keys
RECURSIVE ExpectedApis(_, _)
ExpectedApis(values, g) ==
  IF g > Len(values) THEN <<>>
  ELSE (IF values[g].kind = "object"
        THEN [k \in 1..Len(values[g].keys) |-> ExpectedEntry(g, values[g].keys[k])]
        ELSE <<>>) \o ExpectedApis(values, g + 1)

\* C11: after a successful registration GET /api/exposed returns name,
\* version and apis, with exactly one entry {group, id, params, path,
\* hasBufferInput, hasStreamInput} per function of every group's map, in the
\* order of the groups then of the keys, path being /api/<group>/<id>, the
\* flags false by default, and no schema or function in any entry.
C11_ExposedList ==
  (stage = "responded" /\ request.route = 1) =>
    /\ response.status = 200
    /\ response.name = "name"
    /\ response.version = "version"
    /\ response.apis = ExpectedApis(opts.resolved, 1)
    /\ \A i \in 1..Len(response.apis) :
         /\ DOMAIN response.apis[i]
              = {"group", "id", "params", "path", "hasBufferInput", "hasStreamInput"}
         /\ Api(response.apis[i].id).hasBufferInput = "absent"
              => ~response.apis[i].hasBufferInput
         /\ Api(response.apis[i].id).hasStreamInput = "absent"
              => ~response.apis[i].hasStreamInput

\* the list of a service of three groups, the second of which is no map
C11_Witness ==
  /\ stage = "responded"
  /\ request.route = 1
  /\ NbGroups = 3
  /\ Len(response.apis) = 8
  /\ response.apis[4].group = 3
  /\ response.apis[2].params = << <<"a">>, <<"b">> >>

\* the exposed list of b is that of a with one API added
AddedTo(a, b) ==
  /\ Len(b) = Len(a) + 1
  /\ \E i \in 1..Len(b) :
       a = SubSeq(b, 1, i - 1) \o SubSeq(b, i + 1, Len(b))

\* the exposed list of b is that of a with one API renamed
RenamedIn(a, b) ==
  /\ Len(b) = Len(a)
  /\ \E i \in 1..Len(a) :
       /\ a[i].id # b[i].id
       /\ \A j \in 1..Len(a) : j # i => a[j] = b[j]

Edited(a, b) == AddedTo(a, b) \/ AddedTo(b, a) \/ RenamedIn(a, b)

\* the checksum depends only on the list, and lists that differ by an added,
\* removed or renamed API have different checksums
C12_AsStated ==
  result.fn = "extractApis" =>
    /\ result.left.exposed = result.right.exposed
         => result.left.checksum = result.right.checksum
    /\ Edited(result.left.exposed, result.right.exposed)
         => result.left.checksum # result.right.checksum

\* the names of the functions of the sample services
FixtureIds ==
  {"ping", "add", "greeting", "subtract", "destructured", "failing", "errored",
   "boomError", "rejecting", "bufferHandling", "streamHandling", "validatedPing"}

OfFixtures(list) == \A i \in 1..Len(list) : list[i].id \in FixtureIds

\* C12: the checksum is the CRC-32 of the serialized exposed list and of
\* nothing else: registrations with equal exposed lists have the same
\* checksum even when schemas or bodies differ; lists of the sample
\* functions that differ by an added, removed or renamed API have different
\* checksums, while lists that differ may collide, as those of plumless and
\* buckeroo do.
C12_ChecksumOfExposedList ==
  result.fn = "extractApis" =>
    /\ result.left.checksum = crc32(JSONstringify(result.left.exposed))
    /\ result.right.checksum = crc32(JSONstringify(result.right.exposed))
    /\ result.left.exposed = result.right.exposed
         => result.left.checksum = result.right.checksum
    /\ (/\ Edited(result.left.exposed, result.right.exposed)
        /\ OfFixtures(result.left.exposed)
        /\ OfFixtures(result.right.exposed))
         => result.left.checksum # result.right.checksum

\* two registrations with other schemas and bodies, the same list and the
\* same checksum
C12_Witness ==
  /\ result.fn = "extractApis"
  /\ call.left # call.right
  /\ Len(call.left) = 2
  /\ result.left.exposed = result.right.exposed
  /\ result.left.checksum = result.right.checksum

----------------------------------------------------------------------------
(* Properties of the responses of the server.                               *)

\* the header of the checksum of the list GET /api/exposed serves
ChecksumOfServedList ==
  [name |-> "x-service-crc", value |-> crc32(JSONstringify(exposed))]

HasChecksumHeader == \E h \in response.headers : h.name = "x-service-crc"

C14_SuccessChecksum ==
  (stage \in {"handled", "responded"} /\ request.route > 1 /\ response.status = 200) =>
    /\ response.headers = {ChecksumOfServedList}
    /\ response.body \in {"json", "string", "null", "buffer", "stream"}
    /\ \A h \in response.headers :
         /\ Len(h.value) = 4
         /\ \A n \in 0..(Len(exposed) - 1) :
              h.value # crc32(JSONstringify(SubSeq(exposed, 1, n)))

\* the stream a POST route returned, with the checksum of the four APIs
C14_Witness ==
  /\ stage = "responded"
  /\ routes[request.route].method = "POST"
  /\ response.status = 200
  /\ response.body = "stream"
  /\ Len(exposed) = 4
  /\ response.headers = {ChecksumOfServedList}

\* the key of the payload the i-th schema of validate is about: the name of
\* the i-th parameter, the index when the function declares fewer
SchemaKey(d, i) == IF i <= Len(d.params) THEN d.params[i][1] ELSE ToKey(i - 1)

\* the payload has, for every schema of validate, its key with a value of
\* the type the schema requires, and no other key
Satisfies(payload, d) ==
  /\ \A i \in 1..Len(ValidateOf(d.id)) :
       /\ \E k \in 1..Len(payload) : payload[k].key = SchemaKey(d, i)
       /\ \A k \in 1..Len(payload) :
            payload[k].key = SchemaKey(d, i)
              => TypeOf(payload[k].val) = ValidateOf(d.id)[i]
  /\ \A k \in 1..Len(payload) :
       \E i \in 1..Len(ValidateOf(d.id)) : payload[k].key = SchemaKey(d, i)

\* C15: for a function with validate schemas and declared parameters that
\* is not flagged buffer or stream, a request whose payload does not satisfy
\* the schemas gets a 400 response whose message names the id, and the
\* function is never invoked for that request.
C15_InvalidPayloadRejected ==
  (/\ request.route > 1
   /\ Api(DescriptorOf(request.route).id).validate = "schemas"
   /\ DescriptorOf(request.route).params # <<>>
   /\ ~DescriptorOf(request.route).hasBufferInput
   /\ ~DescriptorOf(request.route).hasStreamInput
   /\ ~Satisfies(Payload, DescriptorOf(request.route))) =>
    /\ ~invocation.invoked
    /\ outcome = NoOutcome
    /\ stage \in {"received", "responded"}
    /\ stage = "responded" =>
         /\ response.status = 400
         /\ response.body = "error"
         /\ \E i \in 1..Len(response.message) :
              response.message[i] = DescriptorOf(request.route).id

\* add called with a string for a: 400, add never invoked
C15_Witness ==
  /\ stage = "responded"
  /\ request.route > 1
  /\ DescriptorOf(request.route).id = "add"
  /\ request.text = << [key |-> "a", val |-> "x"], [key |-> "b", val |-> "5"] >>
  /\ response.status = 400
  /\ ~invocation.invoked

ExoticText ==
  << [key |-> "a", val |-> "1"], [key |-> "b", val |-> "2"],
     [key |-> "2", val |-> "3"], [key |-> "extra", val |-> "4"] >>

\* C17: for a function not flagged buffer or stream with declared names N,
\* the arguments built from a payload are the values of N in the order of
\* the declaration (undefined for a missing key), then the value of every
\* key of the payload that is not in N, in the iteration order of the keys;
\* names [a, b] and payload {a:1, b:2, 2:3, extra:4} give (1, 2, 3, 4).
C17_ArgumentList ==
  (request.route > 1 /\ invocation.invoked
     /\ ~DescriptorOf(request.route).hasBufferInput
     /\ ~DescriptorOf(request.route).hasStreamInput) =>
    LET N == DescriptorOf(request.route).params
        payload == Payload
        NotDeclared(p) == \A i \in 1..Len(N) : N[i][1] # p.key
        others == SelectSeq(payload, NotDeclared)
        args == invocation.args
    IN /\ Len(args) = Len(N) + Len(others)
       /\ \A i \in 1..Len(N) :
            IF \E k \in 1..Len(payload) : payload[k].key = N[i][1]
            THEN \E k \in 1..Len(payload) :
                   payload[k].key = N[i][1] /\ args[i] = payload[k].val
            ELSE args[i] = "undefined"
       /\ \A j \in 1..Len(others) : args[Len(N) + j] = others[j].val
       /\ (N = << <<"a">>, <<"b">> >> /\ request.text = ExoticText)
            => args = <<"1", "2", "3", "4">>

\* subtract (a, b) called with the payload of the example
C17_Witness ==
  /\ invocation.invoked
  /\ request.route > 1
  /\ DescriptorOf(request.route).id = "subtract"
  /\ request.text = ExoticText
  /\ ObjectKeys(Payload) = <<"2", "a", "b", "extra">>
  /\ invocation.args = <<"1", "2", "3", "4">>

----------------------------------------------------------------------------
(* Properties of the marshalling and of the validation of the arguments.   *)

\* the arguments are named and turned into arguments again unchanged,
\* whatever the names
C18_AsStated ==
  (result.fn = "arrayToObj" /\ Len(call.args) >= Len(call.names)) =>
    result.args = call.args

Distinct(names) ==
  \A i \in 1..Len(names) : \A j \in 1..Len(names) : names[i] = names[j] => i = j

\* C18: for every array of arguments and every list of pairwise distinct
\* names no longer than the array, arrayToObj followed by the
\* reconstruction of the request handler gives the array back, the
\* arguments in excess included and in their order; a name declared twice
\* keeps the last of its arguments only.
C18_RoundTrip ==
  result.fn = "arrayToObj" =>
    /\ (Len(call.args) >= Len(call.names) /\ Distinct(call.names))
         => /\ result.args = call.args
            /\ Len(result.obj) = Len(call.args)
            /\ \A i \in 1..Len(call.names) :
                 \E k \in 1..Len(result.obj) :
                   result.obj[k] = [key |-> call.names[i], val |-> call.args[i]]
    /\ (call.names = <<"a", "a">> /\ Len(call.args) = 2)
         => result.args = <<call.args[2], call.args[2]>>

\* three arguments for one name: two arguments in excess come back in order
C18_Witness ==
  /\ result.fn = "arrayToObj"
  /\ call.names = <<"a">>
  /\ call.args = <<"x", "1", "undefined">>
  /\ ObjectKeys(result.obj) = <<"1", "2", "a">>
  /\ result.args = call.args

\* the values have a value of the required type for every parameter, and no
\* other key
ValidValues(values, api) ==
  /\ \A i \in 1..Len(api.params) :
       \E k \in 1..Len(values) :
         /\ values[k].key = api.params[i]
         /\ values[k].val # "undefined"
         /\ (values[k].val \in {"1", "2", "3", "4", "5", "10"}) = (api.validate[i] = "number")
  /\ \A k \in 1..Len(values) :
       \E i \in 1..Len(api.params) : values[k].key = api.params[i]

\* C19: validateParams returns the error of the count, which names id and
\* expected, whenever values has more keys than expected, and does not
\* consult the schema then; only otherwise does it return the error of the
\* schema, or nothing when the values are valid. A validated function of one
\* parameter called with two arguments gets the error of the count.
C19_CountGuard ==
  result.fn = "validateParams" =>
    /\ IF Len(result.values) > call.expected
       THEN /\ result.error.kind = "count"
            /\ result.error.key = call.api.id
            /\ result.error.detail = IndexKeys[call.expected + 1]
            /\ ~result.consulted
       ELSE /\ result.consulted
            /\ result.error.kind \in {"none", "schema"}
            /\ (result.error.kind = "none") = ValidValues(result.values, call.api)
    /\ (call.api.id = "greeting" /\ Len(call.args) = 2 /\ call.expected = 1)
         => result.error.kind = "count"

\* greeting (name) called with two arguments
C19_Witness ==
  /\ result.fn = "validateParams"
  /\ call.api.id = "greeting"
  /\ call.args = <<"x", "1">>
  /\ call.expected = 1
  /\ result.error = [kind |-> "count", key |-> "greeting", detail |-> "1"]
  /\ ~result.consulted

----------------------------------------------------------------------------
(* Properties of the errors of the exposed functions.                      *)

\* the text 'Error while calling API <id>: <original message>'
WrappedMessage(id, message) == <<"Error while calling API ", id, ": ">> \o message

\* a boom error is the response, every other value thrown or rejected gives
\* a 599 response with the message 'Error while calling API <id>: <message>'
C20_AsStated ==
  (stage = "responded" /\ outcome.kind = "threw") =>
    IF outcome.isBoom
    THEN response.status = outcome.status /\ response.message = outcome.message
    ELSE /\ response.status = 599
         /\ response.message
              = WrappedMessage(DescriptorOf(request.route).id, outcome.message)

\* C20: when the function throws or rejects, a boom error is the response
\* unchanged (same status, same message); any other Error gives a 599
\* response whose message begins with 'Error while calling API <id>:
\* <original message>'; null or undefined, thrown or rejected, is not
\* wrapped: the handler fails and the response is not a 599.
C20_ErrorMapping ==
  (stage = "responded" /\ outcome.kind = "threw") =>
    LET wrapped == WrappedMessage(DescriptorOf(request.route).id, outcome.message) IN
    /\ outcome.isBoom
         => response.status = outcome.status /\ response.message = outcome.message
    /\ (~outcome.isBoom /\ outcome.value = "error")
         => /\ response.status = 599
            /\ Len(response.message) >= Len(wrapped)
            /\ SubSeq(response.message, 1, Len(wrapped)) = wrapped
    /\ outcome.value \in {"null", "undefined"}
         => /\ response.status # 599
            /\ \A i \in 1..Len(response.message) :
                 response.message[i] # "Error while calling API "

\* failing threw an Error: 599 and the wrapped message
C20_Witness ==
  /\ stage = "responded"
  /\ outcome.kind = "threw"
  /\ ~outcome.isBoom
  /\ DescriptorOf(request.route).id = "failing"
  /\ response.status = 599
  /\ SubSeq(response.message, 1, 4)
       = <<"Error while calling API ", "failing", ": ", "something went really bad">>

----------------------------------------------------------------------------
(* Properties of getParamNames.                                            *)

\* the declared names, one per parameter, in the order of the declaration
DeclaredNames(fn) == [i \in 1..Len(fn.params) |-> <<fn.params[i].name>>]

HasRest(fn) == \E i \in 1..Len(fn.params) : fn.params[i].rest

PlainSignature(fn) ==
  /\ fn.form # "async bare arrow"
  /\ Len(fn.params) > 1 => fn.separator = ", "
  /\ \A i \in 1..Len(fn.params) :
       \A k \in 1..Len(fn.params[i].text) :
         fn.params[i].text[k] \notin {", ", "(", ")"}

----------------------------------------------------------------------------
(* Properties of the metadata and of the signatures of the functions.      *)

\* the functions whose validateResponse has no responseSchema
WithoutSchema(keys) ==
  { k \in 1..Len(keys) :
      Api(keys[k]).validateResponse # "absent" /\ Api(keys[k]).responseSchema = "absent" }

\* the functions flagged both hasBufferInput and hasStreamInput
BothFlags(keys) ==
  { k \in 1..Len(keys) :
      Api(keys[k]).hasBufferInput = "true" /\ Api(keys[k]).hasStreamInput = "true" }

RestFunctions == {"withRest", "withTightRest"}

----------------------------------------------------------------------------
(* Properties of the validation of responses, of the raw payloads and of   *)
(* the requests without body.                                              *)

\* the function of the request returned a value its responseSchema refuses
NonCompliantResult ==
  /\ request.route > 1
  /\ Api(DescriptorOf(request.route).id).responseSchema = "schema"
  /\ outcome.kind = "returned"
  /\ outcome.value # "string"

Flagged(id) == Api(id).hasBufferInput = "true" \/ Api(id).hasStreamInput = "true"

\* with validateResponse a result the responseSchema refuses is a 512,
\* without it the result is returned, for every function
C22_AsStated ==
  (stage = "responded" /\ NonCompliantResult) =>
    IF Api(DescriptorOf(request.route).id).validateResponse = "true"
    THEN response.status = 512
    ELSE response.status = 200 /\ response.body = outcome.value

\* C22: for every function with a responseSchema that is not flagged
\* buffer or stream: when validateResponse is true, a result that does not
\* satisfy responseSchema is never returned as a success and the response
\* is a 512 that names the id; when validateResponse is false or absent the
\* same result is returned as a success. The result of a flagged function
\* is never validated, whatever validateResponse says.
C22_ResponseSampling ==
  (stage = "responded" /\ NonCompliantResult) =>
    LET id == DescriptorOf(request.route).id IN
    IF Api(id).validateResponse = "true" /\ ~Flagged(id)
    THEN /\ response.status = 512
         /\ response.body = "error"
         /\ response.message[1] = "Incorrect response for API "
         /\ response.message[2] = id
    ELSE /\ response.status = 200
         /\ response.body = outcome.value

\* looseGreeting, validateResponse false, returned null: a success
C22_Witness ==
  /\ stage = "responded"
  /\ request.route > 1
  /\ DescriptorOf(request.route).id = "looseGreeting"
  /\ DescriptorOf(request.route).responseSchema # "absent"
  /\ invocation.args = <<"boom">>
  /\ outcome.value = "null"
  /\ response.status = 200
  /\ response.body = "null"

\* a flagged function is invoked with one argument, the raw body, always
C23_AsStated ==
  (request.route > 1 /\ Flagged(DescriptorOf(request.route).id)
     /\ invocation.invoked) => invocation.args = <<"raw">>

\* C23: for a function flagged hasBufferInput or hasStreamInput every
\* request is handled without parsing and without validation of the
\* payload, and the function is invoked with exactly one argument: the raw
\* body of the request, or the empty object when the request has no body.
\* Every other declared parameter is undefined and no key of a payload is
\* forwarded.
C23_RawPayload ==
  (request.route > 1 /\ Flagged(DescriptorOf(request.route).id)) =>
    /\ request.body # "json"
    /\ request.text = <<>>
    /\ response.status # 400
    /\ stage \in {"invoked", "handled", "responded"} =>
         /\ invocation.invoked
         /\ Len(invocation.args) = 1
         /\ invocation.args = << IF request.body = "none" THEN "{}" ELSE "raw" >>

\* bufferWithExtra (buffer, extra), with validate: one argument, the body
C23_Witness ==
  /\ stage = "responded"
  /\ request.route > 1
  /\ DescriptorOf(request.route).id = "bufferWithExtra"
  /\ Len(DescriptorOf(request.route).params) = 2
  /\ DescriptorOf(request.route).payloadSchema # "absent"
  /\ request.body = "raw"
  /\ invocation.args = <<"raw">>
  /\ response.status = 200

\* the function of a request without body gets no argument when it declares
\* no parameter, undefined for each parameter when it is not validated
C30_AsStated ==
  (request.route > 1 /\ request.body = "none" /\ invocation.invoked) =>
    LET d == DescriptorOf(request.route) IN
    /\ d.params = <<>> => invocation.args = <<>>
    /\ (d.params # <<>> /\ Api(d.id).validate = "absent")
         => invocation.args = [i \in 1..Len(d.params) |-> "undefined"]

\* C30: a request without body is handled as if its payload were the empty
\* object and is no error by itself: a function without parameter that is
\* not flagged buffer or stream is invoked with no argument, a function
\* with parameters and without validation is invoked with undefined for
\* each of them; a flagged function without parameter is invoked with the
\* empty object as its only argument.
C30_NoBody ==
  (request.route > 1 /\ request.body = "none") =>
    LET d == DescriptorOf(request.route) IN
    /\ (d.params = <<>> \/ Api(d.id).validate = "absent") =>
         /\ stage \in {"invoked", "handled", "responded"} => invocation.invoked
         /\ response.status # 400
         /\ response.status = 500 => outcome.kind = "threw"
    /\ invocation.invoked =>
         /\ (d.params = <<>> /\ ~Flagged(d.id)) => invocation.args = <<>>
         /\ (d.params = <<>> /\ Flagged(d.id)) => invocation.args = <<"{}">>
         /\ (d.params # <<>> /\ Api(d.id).validate = "absent")
              => invocation.args = [i \in 1..Len(d.params) |-> "undefined"]

\* subtract (a, b) answered a POST without body: both arguments undefined
C30_Witness ==
  /\ stage = "responded"
  /\ request.route > 1
  /\ request.body = "none"
  /\ DescriptorOf(request.route).id = "subtract"
  /\ invocation.args = <<"undefined", "undefined">>
  /\ response.status = 200

----------------------------------------------------------------------------
(* The started server handling several requests at once: every request in  *)
(* flight runs its own invocation of the handler, and the steps of the     *)
(* handlers interleave at each await.                                      *)

MaxInFlight == 2

Slots == 1..MaxInFlight

\* What the inits of the service resolve to: the asynchronous functions of
\* the sample fixture and the functions of the synchronous fixture.
FlightService ==
  << [kind |-> "object", keys |-> <<"greeting", "boomError", "failing", "add">>],
     [kind |-> "object", keys |-> <<"greeting", "boomError">>] >>

\* the functions of the second group are no async functions
Synchronous(d) == d.group = 2

FlightTexts ==
  {
    << [key |-> "name", val |-> "John"] >>,
    << [key |-> "name", val |-> "boom"] >>,
    << [key |-> "a", val |-> "1"], [key |-> "b", val |-> "2"] >> }

\* what a client gets from GET /api/exposed and from the checksum header
Discovery == [apis |-> exposed, checksum |-> closure.checksum]

NoPending == [kind |-> "none", settled |-> NoOutcome]

\* a slot with no request: before is what the server served when the
\* request of the slot came in, calls the number of invocations of the
\* exposed function, sent the number of responses
NoFlight ==
  [request |-> NoRequest, stage |-> "idle", before |-> Discovery,
   invocation |-> NoInvocation, calls |-> 0, pending |-> NoPending,
   outcome |-> NoOutcome, response |-> NoResponse, sent |-> 0]

\* the server once start() has resolved, no request in flight
FlightInit ==
  /\ opts = [hasName |-> TRUE, hasVersion |-> TRUE,
             groups |-> [i \in 1..Len(FlightService) |-> [hasName |-> TRUE, hasInit |-> TRUE]],
             groupOpts |-> [i \in 1..Len(FlightService) |-> {}],
             resolved |-> FlightService]
  /\ apis = FlightService[Len(FlightService)]
  /\ nonObjects = {}
  /\ descriptors = ExtractAll(FlightService, 1, <<>>)
  /\ pc = "done"
  /\ gi = NbGroups + 1
  /\ initState = [i \in 1..NbGroups |-> "fulfilled"]
  /\ initOrder = [i \in 1..NbGroups |-> i]
  /\ received = [i \in 1..NbGroups |-> ObjectAssign({ServiceLogger}, GroupOptsOf(GroupName(i)))]
  /\ thrown = NoError
  /\ exposed = Exposed(descriptors)
  /\ routes = <<ExposedRoute>> \o [i \in 1..Len(descriptors) |-> RouteOf(descriptors[i])]
  /\ started = TRUE
  /\ error = NoError
  /\ request = NoRequest
  /\ stage = "idle"
  /\ invocation = NoInvocation
  /\ outcome = NoOutcome
  /\ response = NoResponse
  /\ NoCallYet
  /\ closure = [checksum |-> checksum]
  /\ client = NoClient
  /\ flights = [s \in Slots |-> NoFlight]

\* the payload of the first request in flight, whatever the request
FlightPayload_Shared(s) ==
  IF flights[s].request.body = "json"
  THEN JSONparse(flights[1].request.text, <<>>) ELSE <<>>

\* const payload = req.payload || {}: the payload of the request of the
\* invocation of the handler
FlightPayload(s) ==
  IF flights[s].request.body = "json"
  THEN JSONparse(flights[s].request.text, <<>>) ELSE <<>>

\* the arguments pushed on the array of the parameters of the descriptor
HandlerEffect_PushOnParams(ds, r, args) ==
  [ds EXCEPT ![r - 1].params = @ \o [i \in 1..Len(args) |-> <<args[i]>>]]

\* What the handler leaves of the descriptors its closure holds: the
\* arguments are pushed on an array of its own (const args = []), params,
\* id and checksum are only read.
HandlerEffect(ds, r, args) == ds

\* api(...args): a synchronous function returns its value or throws, an
\* async function returns a promise that is fulfilled or rejected
Called(d, o) ==
  [kind |-> IF ~Synchronous(d) THEN "promise"
            ELSE IF o.kind = "returned" THEN "value" ELSE "thrown",
   settled |-> o]

\* the promise of an async function taken as the result
Await_Missing(x) ==
  IF x.kind = "promise" THEN Returned("promise") ELSE x.settled

\* const res = await api(...args) inside try: the value itself, the value
\* the promise is fulfilled with, or the error thrown or rejected with,
\* which the catch receives
Await(x) == x.settled

\* h.response(res).header(checksumHeader, checksum): the checksum is the
\* one registerRoute(server, logger, checksum) was given
FlightSuccess(value) ==
  [status |-> 200, message |-> <<>>,
   headers |-> {[name |-> checksumHeader, value |-> closure.checksum]},
   body |-> value, apis |-> <<>>, name |-> "", version |-> ""]

\* a request comes in while others are in flight
FlightReceive(s) ==
  /\ flights[s].stage \in {"idle", "responded"}
  /\ \E r \in 1..Len(routes) :
       \E body \in {"none", "json"}, text \in FlightTexts \cup {<<>>} :
         /\ (body = "json") = (routes[r].method = "POST")
         /\ (body = "json") = (text # <<>>)
         /\ flights' = [flights EXCEPT ![s] =
              [NoFlight EXCEPT !.request = [route |-> r, body |-> body, text |-> text],
                               !.stage = "received"]]
  /\ UNCHANGED <<registrationVars, serveVars, utilVars, closure, clientVars>>

\* the handler of /api/exposed
FlightExposed(s) ==
  /\ flights[s].stage = "received"
  /\ flights[s].request.route = 1
  /\ flights' = [flights EXCEPT
       ![s].response = [status |-> 200, message |-> <<>>, headers |-> {},
                        body |-> "json", apis |-> exposed,
                        name |-> IF opts.hasName THEN "name" ELSE Undefined,
                        version |-> IF opts.hasVersion THEN "version" ELSE Undefined],
       ![s].sent = @ + 1,
       ![s].stage = "responded"]
  /\ UNCHANGED <<registrationVars, serveVars, utilVars, closure, clientVars>>

\* the router validates the payload against options.validate, when set
FlightValidate(s) ==
  /\ flights[s].stage = "received"
  /\ flights[s].request.route > 1
  /\ LET d == DescriptorOf(flights[s].request.route)
         err == IF ~HasPayloadValidation(d) THEN NoValidationError
                ELSE SchemaValidate(FlightPayload(s), PayloadSchema(d))
         action == PayloadFailAction(err, d.id)
     IN flights' = [flights EXCEPT ![s] =
          IF err # NoValidationError /\ action.takeover
          THEN [@ EXCEPT !.response = ErrorHeaders(action.response),
                         !.sent = @ + 1, !.stage = "responded"]
          ELSE [@ EXCEPT !.stage = "validated"]]
  /\ UNCHANGED <<registrationVars, serveVars, utilVars, closure, clientVars>>

\* the handler builds the arguments and calls the exposed function
FlightCall(s) ==
  /\ flights[s].stage = "validated"
  /\ LET r == flights[s].request.route
         d == DescriptorOf(r)
         args == HandlerArgs(FlightPayload(s), ParamNames(d))
     IN /\ \E o \in Outcomes(d.id, args) :
             flights' = [flights EXCEPT
               ![s].invocation = [invoked |-> TRUE, args |-> args],
               ![s].calls = @ + 1,
               ![s].pending = Called(d, o),
               ![s].stage = "called"]
        /\ descriptors' = HandlerEffect(descriptors, r, args)
        /\ exposed' = [i \in 1..Len(exposed) |->
                         [exposed[i] EXCEPT !.params = descriptors'[i].params]]
  /\ UNCHANGED <<opts, pc, gi, initState, initOrder, received, thrown, apis,
                 nonObjects, routes, started, error, serveVars, utilVars, closure, clientVars>>

\* the handler resumes with what it awaited
FlightAwait(s) ==
  /\ flights[s].stage = "called"
  /\ flights' = [flights EXCEPT ![s].outcome = Await(flights[s].pending),
                                ![s].stage = "settled"]
  /\ UNCHANGED <<registrationVars, serveVars, utilVars, closure, clientVars>>

\* the handler returns the response with the checksum, or throws
FlightComplete(s) ==
  /\ flights[s].stage = "settled"
  /\ LET d == DescriptorOf(flights[s].request.route)
         o == flights[s].outcome
     IN IF o.kind = "returned"
        THEN flights' = [flights EXCEPT ![s].response = FlightSuccess(o.value),
                                        ![s].stage = "handled"]
        ELSE \E r \in Caught(d.id, o) :
               flights' = [flights EXCEPT ![s].response = ErrorHeaders(r),
                                          ![s].sent = @ + 1,
                                          ![s].stage = "responded"]
  /\ UNCHANGED <<registrationVars, serveVars, utilVars, closure, clientVars>>

\* the router validates the response against options.response, and sends
FlightValidateResponse(s) ==
  /\ flights[s].stage = "handled"
  /\ LET d == DescriptorOf(flights[s].request.route) IN
       flights' = [flights EXCEPT
         ![s].response =
            IF ResponseSample(d) = 100 /\ ~ResponseValid(flights[s].outcome.value)
            THEN ErrorHeaders(enrichError(
                   [key |-> d.id \o "Result", detail |-> "must be of its type"],
                   d.id, FALSE))
            ELSE @,
         ![s].sent = @ + 1,
         ![s].stage = "responded"]
  /\ UNCHANGED <<registrationVars, serveVars, utilVars, closure, clientVars>>

FlightNext ==
  \E s \in Slots :
    \/ FlightReceive(s)
    \/ FlightExposed(s)
    \/ FlightValidate(s)
    \/ FlightCall(s)
    \/ FlightAwait(s)
    \/ FlightComplete(s)
    \/ FlightValidateResponse(s)

FlightSpec == FlightInit /\ [][FlightNext]_vars

----------------------------------------------------------------------------
(* Properties of the requests in flight.                                   *)

FlightDescriptor(s) == DescriptorOf(flights[s].request.route)

Responded(s) == flights[s].stage = "responded"

ToApi(s) == flights[s].request.route > 1

\* C21: a synchronous function and an asynchronous one are handled alike:
\* two requests with the same payload to functions of the same id, one
\* that returns (or throws) and one that resolves to (or rejects with) the
\* same value, get the same arguments, the same outcome and the same
\* response.
C21_SyncAsync ==
  \A s \in Slots, u \in Slots :
    (/\ ToApi(s) /\ ToApi(u)
     /\ FlightDescriptor(s).id = FlightDescriptor(u).id
     /\ Synchronous(FlightDescriptor(s)) /\ ~Synchronous(FlightDescriptor(u))
     /\ flights[s].request.text = flights[u].request.text
     /\ Responded(s) /\ Responded(u))
    => /\ flights[s].invocation = flights[u].invocation
       /\ flights[s].outcome = flights[u].outcome
       /\ flights[s].response = flights[u].response

\* boomError thrown by the synchronous function and rejected by the async
\* one: both requests answered with the same 401
C21_Witness ==
  \E s \in Slots, u \in Slots :
    /\ Responded(s) /\ Responded(u)
    /\ flights[s].pending.kind = "thrown"
    /\ flights[u].pending.kind = "promise"
    /\ FlightDescriptor(s).id = "boomError"
    /\ FlightDescriptor(u).id = "boomError"
    /\ flights[s].response.status = 401
    /\ flights[u].response = flights[s].response

\* C27: once the server is started no request changes the descriptors,
\* the exposed list or the checksum, whatever its outcome: what the server
\* serves at /api/exposed and in the checksum header is, at every step of
\* every request, what it served when the request came in.
C27_DiscoveryUnchanged ==
  /\ exposed = Exposed(descriptors)
  /\ Len(routes) = Len(descriptors) + 1
  /\ \A s \in Slots :
       /\ flights[s].before = Discovery
       /\ (Responded(s) /\ ~ToApi(s)) => flights[s].response.apis = flights[s].before.apis
       /\ (Responded(s) /\ flights[s].response.status = 200 /\ ToApi(s)) =>
            flights[s].response.headers =
              {[name |-> checksumHeader, value |-> flights[s].before.checksum]}

\* the exposed list served while another request got its 599, after a call
\* with an argument
C27_Witness ==
  \E s \in Slots, u \in Slots :
    /\ Responded(s) /\ ~ToApi(s)
    /\ flights[s].response.apis = Exposed(descriptors)
    /\ Len(flights[s].response.apis) = 6
    /\ Responded(u) /\ flights[u].response.status = 599

\* the payload of the request passes the validation of its route
PassesValidation(s) ==
  LET d == FlightDescriptor(s) IN
  HasPayloadValidation(d) =>
    SchemaValidate(JSONparse(flights[s].request.text, <<>>), PayloadSchema(d))
      = NoValidationError

\* C28: for every request the exposed function is invoked at most once:
\* once when the request passes the validation of its payload, never
\* otherwise; and the request gets one response, a success or an error.
\* No failure leads to another invocation.
C28_InvokedOnce ==
  \A s \in Slots :
    /\ flights[s].calls \in {0, 1}
    /\ flights[s].sent = (IF Responded(s) THEN 1 ELSE 0)
    /\ flights[s].calls = 1 <=> flights[s].invocation.invoked
    /\ flights[s].stage \in {"idle", "received", "validated"} => flights[s].calls = 0
    /\ flights[s].stage \in {"called", "settled", "handled"} => flights[s].calls = 1
    /\ flights[s].stage = "validated" => PassesValidation(s)
    /\ Responded(s) =>
         /\ flights[s].calls = 1 <=> (ToApi(s) /\ PassesValidation(s))
         /\ flights[s].response.status \in {200, 400, 401, 500, 512, 599}
         /\ flights[s].response.status = 400 <=> (ToApi(s) /\ ~PassesValidation(s))

\* one request refused with a 400 and never invoked, another one invoked
\* once and answered with the 599 of its failure
C28_Witness ==
  \E s \in Slots, u \in Slots :
    /\ Responded(s) /\ flights[s].response.status = 400 /\ flights[s].calls = 0
    /\ Responded(u) /\ flights[u].response.status = 599 /\ flights[u].calls = 1
    /\ flights[u].sent = 1

\* the value of a key in the text of the payload of a request
OwnValue(s, key) ==
  LET text == flights[s].request.text IN
  IF \E j \in 1..Len(text) : text[j].key = key
  THEN text[CHOOSE j \in 1..Len(text) : text[j].key = key].val
  ELSE Undefined

\* C29: under every interleaving of the requests in flight each request is
\* answered from its own payload and its own invocation: each argument of
\* its invocation is a value of its own payload or undefined, the
\* parameters first, and two requests with the same route and payload get
\* the same status and body whatever happens to the other requests.
C29_Isolation ==
  /\ \A s \in Slots :
       flights[s].invocation.invoked =>
         LET args == flights[s].invocation.args
             params == ParamNames(FlightDescriptor(s))
             text == flights[s].request.text
         IN /\ Len(args) >= Len(params)
            /\ \A i \in 1..Len(params) : args[i] = OwnValue(s, params[i])
            /\ \A i \in (Len(params) + 1)..Len(args) :
                 \E j \in 1..Len(text) :
                   text[j].val = args[i] /\ ~Includes(params, text[j].key)
  /\ \A s \in Slots, u \in Slots :
       (Responded(s) /\ Responded(u) /\ flights[s].request = flights[u].request)
         => /\ flights[s].response.status = flights[u].response.status
            /\ flights[s].response.body = flights[u].response.body
            /\ flights[s].response.headers = flights[u].response.headers

\* two requests with different payloads invoked while both in flight: one
\* fails its response validation, the other one succeeds with its own name
C29_Witness ==
  \E s \in Slots, u \in Slots :
    /\ flights[s].request.text = << [key |-> "name", val |-> "boom"] >>
    /\ flights[u].request.text = << [key |-> "name", val |-> "John"] >>
    /\ flights[s].invocation.args = <<"boom">>
    /\ flights[u].invocation.args = <<"John">>
    /\ Responded(s) /\ flights[s].response.status = 512
    /\ Responded(u) /\ flights[u].response.status = 200

----------------------------------------------------------------------------
(* Properties of the order of the registration and of the requests.        *)

\* C31: the server listens, and so serves a request to an API or to the
\* exposed list, only once the init of every group was invoked once and is
\* fulfilled, the loop over the groups is over, and the exposed list and
\* the routes were built from all the descriptors; while an init is pending
\* or still to be invoked there is no route and the server does not listen.
C31_ServedAfterRegistration ==
  /\ started =>
       /\ \A i \in 1..NbGroups : initState[i] = "fulfilled" /\ Invocations(i) = 1
       /\ gi = NbGroups + 1
       /\ error = NoError
       /\ exposed = Exposed(descriptors)
       /\ routes = <<ExposedRoute>>
                     \o [i \in 1..Len(descriptors) |-> RouteOf(descriptors[i])]
  /\ (\E i \in 1..NbGroups : initState[i] \in {"idle", "pending"}) =>
       ~started /\ routes = <<>> /\ exposed = <<>>

\* three groups, the functions of two of them exposed, the server listens
C31_Witness ==
  /\ started
  /\ NbGroups = 3
  /\ Cardinality(DescribedGroups) = 2
  /\ Len(routes) >= 3
  /\ initState = <<"fulfilled", "fulfilled", "fulfilled">>

\* the slots of the requests followed to their response
LiveSlots == Slots \cap {1, 2}

FlightLiveNext ==
  \E s \in LiveSlots :
    \/ FlightReceive(s)
    \/ FlightExposed(s)
    \/ FlightValidate(s)
    \/ FlightCall(s)
    \/ FlightAwait(s)
    \/ FlightComplete(s)
    \/ FlightValidateResponse(s)

\* The requests in flight with the scheduling of the event loop: once the
\* function has settled the handler resumes and the router sends the
\* response. Nothing makes a function settle: there is no timeout.
FlightLiveSpec ==
  /\ FlightInit
  /\ [][FlightLiveNext]_vars
  /\ \A s \in LiveSlots : WF_vars(FlightComplete(s))
  /\ \A s \in LiveSlots : WF_vars(FlightValidateResponse(s))

\* the steps of the request of a slot are in order
InOrder(s) ==
  LET f == flights[s] IN
  /\ f.stage \in {"received", "validated"} =>
       ~f.invocation.invoked /\ f.pending = NoPending /\ f.outcome = NoOutcome
  /\ f.invocation.invoked => (ToApi(s) /\ PassesValidation(s))
  /\ f.stage = "called" =>
       /\ f.pending.kind \in {"value", "thrown", "promise"}
       /\ f.outcome = NoOutcome
       /\ f.response = NoResponse
       /\ f.sent = 0
  /\ f.stage \in {"settled", "handled"} =>
       /\ f.outcome = f.pending.settled
       /\ f.sent = 0
  /\ (f.stage = "responded" /\ f.invocation.invoked) =>
       /\ f.outcome = f.pending.settled
       /\ f.outcome.kind \in {"returned", "threw"}
       /\ f.outcome.kind = "threw" => f.response.status >= 400
       /\ f.response.status = 200 => f.response.body = f.outcome.value

\* C32: a request goes through its steps in order: the validation of its
\* payload before the invocation of the function, no response while the
\* function is pending, and the response built from what the function
\* settled with; once the function has settled the request is answered.
C32_StepOrder ==
  /\ [](\A s \in Slots : InOrder(s))
  /\ \A s \in LiveSlots : (flights[s].stage = "settled") ~> Responded(s)

\* one request answered from what its function returned while the promise
\* of the function of another one is still pending, with no response
C32_Witness ==
  \E s \in Slots, u \in Slots :
    /\ flights[s].stage = "called"
    /\ flights[s].pending.kind = "promise"
    /\ flights[s].response = NoResponse
    /\ Responded(u)
    /\ flights[u].invocation.invoked
    /\ flights[u].response.status = 200
    /\ flights[u].response.body = flights[u].pending.settled.value

----------------------------------------------------------------------------
(* Properties of the keys of a payload that are no declared parameter.     *)

\* the keys of the payload of the request that are no name of a parameter
UndeclaredKeys ==
  LET N == ParamNames(DescriptorOf(request.route)) IN
  { request.text[k].key : k \in { j \in 1..Len(request.text) :
                                     \A i \in 1..Len(N) : N[i] # request.text[j].key } }

\* the indices of the schemas of validate past the declared parameters
SchemaIndices ==
  LET d == DescriptorOf(request.route) IN
  { ToKey(i) : i \in Len(d.params)..(Len(ValidateOf(d.id)) - 1) }

\* a payload with a key that is no declared parameter is refused whenever
\* the function has a payload schema
C33_AsStated ==
  (/\ request.route > 1 /\ request.body = "json"
   /\ DescriptorOf(request.route).payloadSchema # "absent"
   /\ UndeclaredKeys # {}) =>
    /\ ~invocation.invoked
    /\ stage = "responded" => response.status = 400

\* C33: for a function with a payload schema, a payload with a key that is
\* neither the name of a declared parameter nor the index of a schema of
\* validate past the declared parameters is refused with a 400 and the
\* function is not invoked. The other keys of a payload are forwarded as
\* trailing arguments: every key for a function without payload schema,
\* and for a function whose validate has more schemas than it declares
\* parameters the keys named after the indices of these schemas.
C33_UnknownKeys ==
  (request.route > 1 /\ request.body = "json") =>
    LET d == DescriptorOf(request.route)
        N == ParamNames(d)
        trailing == [i \in 1..(Len(invocation.args) - Len(N)) |->
                       invocation.args[Len(N) + i]]
    IN /\ (d.payloadSchema # "absent" /\ UndeclaredKeys \ SchemaIndices # {}) =>
            /\ ~invocation.invoked
            /\ stage = "responded" =>
                 response.status = 400 /\ response.body = "error"
       /\ invocation.invoked =>
            /\ Len(trailing) = Cardinality(UndeclaredKeys)
            /\ \A k \in UndeclaredKeys :
                 \E i \in 1..Len(trailing) : trailing[i] = Get(Payload, k)
            /\ d.payloadSchema # "absent" => UndeclaredKeys \subseteq SchemaIndices
       /\ (d.payloadSchema = "absent" /\ stage = "responded") =>
            invocation.invoked /\ response.status # 400

\* add (a, b), with its two schemas, refused the payload with 2 and extra
C33_Witness ==
  /\ stage = "responded"
  /\ request.route > 1
  /\ DescriptorOf(request.route).id = "add"
  /\ DescriptorOf(request.route).payloadSchema # "absent"
  /\ UndeclaredKeys = {"2", "extra"}
  /\ response.status = 400
  /\ ~invocation.invoked

----------------------------------------------------------------------------
(* Properties of the responses of the functions flagged buffer or stream.  *)

\* C34: no response validation is configured for a function flagged
\* hasBufferInput or hasStreamInput: whatever its responseSchema and its
\* validateResponse, no request to it is answered with a 512, and what the
\* function returns is the body of a success, with the checksum.
C34_FlaggedUnvalidated ==
  (request.route > 1 /\ stage = "responded"
     /\ (DescriptorOf(request.route).hasBufferInput
           \/ DescriptorOf(request.route).hasStreamInput)) =>
    /\ response.status # 512
    /\ outcome.kind = "returned" =>
         /\ response.status = 200
         /\ response.body = outcome.value
         /\ \E h \in response.headers : h.name = checksumHeader

\* bufferChecked, with responseSchema and validateResponse true, returned
\* a buffer where its schema wants a string: a success
C34_Witness ==
  /\ stage = "responded"
  /\ request.route > 1
  /\ DescriptorOf(request.route).id = "bufferChecked"
  /\ DescriptorOf(request.route).hasBufferInput
  /\ DescriptorOf(request.route).responseSchema # "absent"
  /\ DescriptorOf(request.route).validateResponse
  /\ ~ResponseValid(outcome.value)
  /\ response.status = 200
  /\ response.body = "buffer"

----------------------------------------------------------------------------
(* The local client: init() registers the services with registerLocal, a   *)
(* chain of promises that invokes the init of each service in turn and     *)
(* attaches its functions to the client.                                   *)

MaxServices == 3

MaxInits == 2

\* what the init of a service does: it resolves to its functions, to
\* nothing, or rejects
ServiceBehaviours == {"apis", "null", "rejects"}

\* the ids of the functions of the i-th service
ServiceIds(i) ==
  IF i = 1 THEN <<"add", "subtract">>
  ELSE IF i = 2 THEN <<"ping", "greeting">>
  ELSE IF i = 3 THEN <<"failing">>
  ELSE <<"boomError">>

NoInitCall ==
  [pc |-> "none", k |-> 0, whenInitialized |-> FALSE, invoked |-> <<>>, error |-> 0]

\* new Client({services}): nothing initialized, no function attached
LocalInit ==
  /\ NotStarted
  /\ NoCallYet
  /\ request = NoRequest
  /\ stage = "idle"
  /\ invocation = NoInvocation
  /\ outcome = NoOutcome
  /\ response = NoResponse
  /\ flights = <<>>
  /\ closure = NoClosure
  /\ \E n \in 1..MaxServices :
       \E services \in [1..n -> ServiceBehaviours] :
         client = [kind |-> "local",
                   services |-> services,
                   initialized |-> FALSE,
                   context |-> <<>>,
                   inits |-> [i \in 1..n |-> 0],
                   calls |-> [c \in 1..MaxInits |-> NoInitCall]]

NbServices == Len(client.services)

\* if (this.initialized || this.options.remote) return Promise.resolve()
InitGuard(cl) == cl.initialized \/ cl.kind = "remote"

\* the rejection of an init caught: the chain goes on with the next service
ChainOnReject_Continue(ic, k) == [ic EXCEPT !.pc = "chain", !.k = k + 1]

\* previous.then(...).then(...): once an init rejected, every later
\* callback of the chain is skipped and init() rejects with the error
ChainOnReject(ic, k) == [ic EXCEPT !.pc = "rejected", !.error = k]

\* for (const id in apis) context[id] = (...args) => ...
RECURSIVE Attach(_, _, _)
Attach(context, ids, i) ==
  IF ids = <<>> THEN context
  ELSE Attach(Put(context, Head(ids), ToKey(i)), Tail(ids), i)

\* client.init() is called
CallInit(c) ==
  /\ client.kind = "local"
  /\ client.calls[c].pc = "none"
  /\ \A b \in 1..(c - 1) : client.calls[b].pc # "none"
  /\ client' = [client EXCEPT !.calls[c] =
       IF InitGuard(client)
       THEN [@ EXCEPT !.pc = "resolved", !.whenInitialized = client.initialized]
       ELSE [@ EXCEPT !.pc = "chain", !.k = 1,
                      !.whenInitialized = client.initialized]]
  /\ UNCHANGED <<registrationVars, serveVars, utilVars, flightVars>>

\* .then(() => init(Object.assign({logger}, serviceOpts[name])))
InvokeServiceInit(c) ==
  /\ client.kind = "local"
  /\ client.calls[c].pc = "chain"
  /\ client.calls[c].k <= NbServices
  /\ LET k == client.calls[c].k IN
       client' = [client EXCEPT !.inits[k] = @ + 1,
                                !.calls[c].invoked = Append(@, k),
                                !.calls[c].pc = "pending"]
  /\ UNCHANGED <<registrationVars, serveVars, utilVars, flightVars>>

\* the promise of the init settles: .then(apis => { if (!isApi(apis)) return; ... })
SettleServiceInit(c) ==
  /\ client.kind = "local"
  /\ client.calls[c].pc = "pending"
  /\ LET k == client.calls[c].k IN
       IF client.services[k] = "rejects"
       THEN client' = [client EXCEPT !.calls[c] = ChainOnReject(@, k)]
       ELSE client' = [client EXCEPT
              !.context = IF client.services[k] = "apis"
                          THEN Attach(@, ServiceIds(k), k) ELSE @,
              !.calls[c].pc = "chain",
              !.calls[c].k = k + 1]
  /\ UNCHANGED <<registrationVars, serveVars, utilVars, flightVars>>

\* .then(() => { this.initialized = true })
FinishInit(c) ==
  /\ client.kind = "local"
  /\ client.calls[c].pc = "chain"
  /\ client.calls[c].k > NbServices
  /\ client' = [client EXCEPT !.initialized = TRUE, !.calls[c].pc = "resolved"]
  /\ UNCHANGED <<registrationVars, serveVars, utilVars, flightVars>>

LocalNext ==
  \E c \in 1..MaxInits :
    \/ CallInit(c)
    \/ InvokeServiceInit(c)
    \/ SettleServiceInit(c)
    \/ FinishInit(c)

LocalSpec == LocalInit /\ [][LocalNext]_vars

----------------------------------------------------------------------------
(* Properties of the local client.                                         *)

\* the services whose init rejects
Rejecting == { i \in 1..NbServices : client.services[i] = "rejects" }

\* the services whose functions are attached to the client
AttachedServices == { IndexOf(client.context[j].val) : j \in 1..Len(client.context) }

\* C35: registerLocal invokes the inits in the order of the declaration and
\* stops at the first init that rejects: init() rejects with its error, the
\* init of no later service is invoked, no function of the failing service
\* or of a later one is attached, and the functions of the earlier services
\* stay attached.
C35_LocalFailFast ==
  client.kind = "local" =>
    /\ \A c \in 1..MaxInits :
         LET ic == client.calls[c] IN
         /\ ic.invoked = [i \in 1..Len(ic.invoked) |-> i]
         /\ ic.pc = "rejected" =>
              /\ ic.error \in Rejecting
              /\ \A j \in Rejecting : ic.error <= j
              /\ ic.invoked = [i \in 1..ic.error |-> i]
              /\ \A j \in 1..(ic.error - 1) :
                   client.services[j] = "apis" =>
                     \A i \in 1..Len(ServiceIds(j)) :
                       Get(client.context, ServiceIds(j)[i]) = ToKey(j)
         /\ ic.pc = "resolved" => Rejecting = {}
    /\ \A j \in Rejecting :
         \A k \in j..NbServices :
           /\ k \notin AttachedServices
           /\ k > j => client.inits[k] = 0
    /\ Rejecting # {} => ~client.initialized

\* the second of three services rejected: init() rejected, the functions of
\* the first are attached, the third was never initialized
C35_Witness ==
  /\ client.kind = "local"
  /\ NbServices = 3
  /\ client.services = <<"apis", "rejects", "apis">>
  /\ client.calls[1].pc = "rejected"
  /\ client.calls[1].error = 2
  /\ client.calls[1].invoked = <<1, 2>>
  /\ ObjectKeys(client.context) = <<"add", "subtract">>
  /\ client.inits[3] = 0

\* C36: whatever the calls to init() of a local client, a second one made
\* before the first resolved included, the init of each service is invoked
\* at most once, and every call to init() resolves (when no init rejects)
C36_AsStated ==
  client.kind = "local" =>
    /\ \A k \in 1..NbServices : client.inits[k] <= 1
    /\ Rejecting = {} => \A c \in 1..MaxInits : client.calls[c].pc # "rejected"

----------------------------------------------------------------------------
(* The remote client: a Proxy around the client object. A property that   *)
(* the client does not have yet is answered by a function that fetches    *)
(* the exposed APIs from the server, registers them on the client and     *)
(* then invokes the API.                                                  *)

\* Largest number of API calls made on the remote client.
MaxCalls == 3

\* what the init of the service of the server resolves to
RemoteService == << [kind |-> "object", keys |-> <<"ping", "greeting", "add">>] >>

\* the properties got on the client: exposed APIs and one that is not
RemoteProps == {"ping", "greeting", "unknown"}

\* the arguments of the calls
RemoteArgs(prop) ==
  IF prop = "greeting" THEN {<<>>, <<"Jane">>} ELSE {<<>>}

NoApiCall ==
  [pc |-> "none", prop |-> "none", args |-> <<>>, viaProxy |-> FALSE,
   fetchedBefore |-> 0, status |-> 0]

\* the server started with RemoteService, and a client built with remote set
RemoteInit ==
  /\ opts = [hasName |-> TRUE, hasVersion |-> TRUE,
             groups |-> [i \in 1..Len(RemoteService) |-> [hasName |-> TRUE, hasInit |-> TRUE]],
             groupOpts |-> [i \in 1..Len(RemoteService) |-> {}],
             resolved |-> RemoteService]
  /\ apis = RemoteService[Len(RemoteService)]
  /\ nonObjects = {}
  /\ descriptors = ExtractAll(RemoteService, 1, <<>>)
  /\ pc = "done"
  /\ gi = NbGroups + 1
  /\ initState = [i \in 1..NbGroups |-> "fulfilled"]
  /\ initOrder = [i \in 1..NbGroups |-> i]
  /\ received = [i \in 1..NbGroups |-> ObjectAssign({ServiceLogger}, GroupOptsOf(GroupName(i)))]
  /\ thrown = NoError
  /\ exposed = Exposed(descriptors)
  /\ routes = <<ExposedRoute>> \o [i \in 1..Len(descriptors) |-> RouteOf(descriptors[i])]
  /\ started = TRUE
  /\ error = NoError
  /\ request = NoRequest
  /\ stage = "idle"
  /\ invocation = NoInvocation
  /\ outcome = NoOutcome
  /\ response = NoResponse
  /\ NoCallYet
  /\ closure = NoClosure
  /\ flights = <<>>
  /\ client = [kind |-> "remote", initialized |-> FALSE, target |-> <<>>,
               initCalled |-> FALSE, fetched |-> 0, log |-> <<>>,
               calls |-> [c \in 1..MaxCalls |-> NoApiCall]]

\* a Proxy that never finds the property on the client
PropInTarget_Never(target, propKey) == HasKey(target, propKey) /\ ~HasKey(target, propKey)

\* propKey in target
PropInTarget(target, propKey) == HasKey(target, propKey)

\* const method = params.length ? 'POST' : 'GET'
ClientMethod(entry) == IF Len(entry.params) # 0 THEN "POST" ELSE "GET"

\* exposed.forEach(...): context[id] = (...args) => request({method, uri, body})
RECURSIVE registerFromServer(_, _)
registerFromServer(context, list) ==
  IF list = <<>> THEN context
  ELSE registerFromServer(
         Put(context, Head(list).id,
             [method |-> ClientMethod(Head(list)), path |-> Head(list).path,
              params |-> ParamNames(Head(list))]),
         Tail(list))

\* the request for the exposed APIs
ExposedRequest(c) == [by |-> c, method |-> "GET", path |-> PathOf(0, "exposed"), body |-> <<>>]

\* request({method, uri: `${url}${path}`, body: arrayToObj(args, params)})
ApiRequest(c, method, args) ==
  [by |-> c, method |-> method.method, path |-> method.path,
   body |-> arrayToObj(args, method.params)]

\* init() on the remote client: resolves without any request
RemoteCallInit ==
  /\ client.kind = "remote"
  /\ InitGuard(client)
  /\ client' = [client EXCEPT !.initCalled = TRUE]
  /\ UNCHANGED <<registrationVars, serveVars, utilVars, flightVars>>

\* client[prop](...args): the registered method when the client has it,
\* the function of the Proxy otherwise, which starts by fetching the list
CallApi(c) ==
  /\ client.kind = "remote"
  /\ client.calls[c].pc = "none"
  /\ \A b \in 1..(c - 1) : client.calls[b].pc # "none"
  /\ \E prop \in RemoteProps : \E args \in RemoteArgs(prop) :
       LET issued == [NoApiCall EXCEPT !.prop = prop, !.args = args,
                                       !.fetchedBefore = client.fetched]
       IN IF PropInTarget(client.target, prop)
          THEN client' = [client EXCEPT
                 !.calls[c] = [issued EXCEPT !.pc = "requested", !.viaProxy = FALSE],
                 !.log = Append(@, ApiRequest(c, Get(client.target, prop), args))]
          ELSE client' = [client EXCEPT
                 !.calls[c] = [issued EXCEPT !.pc = "fetching", !.viaProxy = TRUE],
                 !.log = Append(@, ExposedRequest(c))]
  /\ UNCHANGED <<registrationVars, serveVars, utilVars, flightVars>>

\* the response to GET /api/exposed: the APIs are registered on the client,
\* then the API is invoked with the arguments of the call if it exists
FetchResolved(c) ==
  /\ client.kind = "remote"
  /\ client.calls[c].pc = "fetching"
  /\ LET ic == client.calls[c]
         registered == registerFromServer(client.target, exposed)
     IN IF ~PropInTarget(registered, ic.prop)
        THEN client' = [client EXCEPT
               !.target = registered, !.fetched = @ + 1,
               !.calls[c].pc = "rejected"]
        ELSE client' = [client EXCEPT
               !.target = registered, !.fetched = @ + 1,
               !.calls[c].pc = "requested",
               !.log = Append(@, ApiRequest(c, Get(registered, ic.prop), ic.args))]
  /\ UNCHANGED <<registrationVars, serveVars, utilVars, flightVars>>

\* the server answers the request of the call: the route of that method and
\* path, or 404
ApiResponded(c) ==
  /\ client.kind = "remote"
  /\ client.calls[c].pc = "requested"
  /\ LET sent == client.log[CHOOSE i \in 1..Len(client.log) :
                     client.log[i].by = c /\ client.log[i].path.id # "exposed"]
         found == \E r \in 1..Len(routes) :
                    routes[r].method = sent.method /\ routes[r].path = sent.path
     IN client' = [client EXCEPT
          !.calls[c].pc = "done",
          !.calls[c].status = IF found THEN 200 ELSE 404]
  /\ UNCHANGED <<registrationVars, serveVars, utilVars, flightVars>>

RemoteNext ==
  \/ RemoteCallInit
  \/ \E c \in 1..MaxCalls :
       \/ CallApi(c)
       \/ FetchResolved(c)
       \/ ApiResponded(c)

RemoteSpec == RemoteInit /\ [][RemoteNext]_vars

----------------------------------------------------------------------------
(* Properties of the remote client.                                       *)

\* the positions in the log of the requests of call c for the exposed list
ExposedRequestsOf(c) ==
  { i \in 1..Len(client.log) :
      client.log[i].by = c /\ client.log[i].path.id = "exposed" }

\* the positions in the log of the requests of call c to an API
ApiRequestsOf(c) ==
  { i \in 1..Len(client.log) :
      client.log[i].by = c /\ client.log[i].path.id # "exposed" }

ExposedRequests == UNION { ExposedRequestsOf(c) : c \in 1..MaxCalls }

IsExposedId(prop) == \E i \in 1..Len(exposed) : exposed[i].id = prop

C38_AsStated ==
  (/\ client.kind = "remote"
   /\ \A c \in 1..MaxCalls : client.calls[c].fetchedBefore = 0) =>
    /\ Cardinality(ExposedRequests) <= 1
    /\ \A c \in 1..MaxCalls : \A i \in ApiRequestsOf(c) :
         client.log[i].body =
           arrayToObj(client.calls[c].args, Get(client.target, client.calls[c].prop).params)

====
